---- MODULE Spec2Model ----
(***************************************************************************)
(* Layered memory subsystem of the-nexus-core (layered_memory_system.py):  *)
(* ShortTermMemory (WorkingMemory), LongTermMemory (PersistentMemory) and  *)
(* LayeredMemorySystem (the orchestrator).                                 *)
(*                                                                         *)
(* Python objects are modelled by a heap: `heap` maps an object reference  *)
(* to the fields of a MemoryItem, and the deque, the side table and the    *)
(* long-term index hold references, so that one object held by two         *)
(* collections is one heap cell.  Time is in minutes.  The id              *)
(* sha256(content_timestamp)[:16] is modelled as the pair                  *)
(* <<content, timestamp>> (the hash taken as injective).                   *)
(*                                                                         *)
(* importance is a Python float (IEEE 754 binary64).  A float of value v   *)
(* is the record [hundredths |-> h, excess |-> k] with                     *)
(* v * 100 * 2^57 = h * 2^57 + k: h is the decimal the value stands for    *)
(* and k its binary representation error, in units of 2^-57 / 100.  A      *)
(* decimal literal and a sum are rounded to the nearest float, ties to     *)
(* even (Round).  The product in prune's decay formula is computed on the  *)
(* hundredths, without rounding.                                           *)
(* last_accessed and context are not modelled: nothing reads them.         *)
(***************************************************************************)
EXTENDS Integers, Sequences, FiniteSets, TLC

\* ---------------------------------------------------------------- bounds
MaxObjects == 3        \* MemoryItem objects allocated since the process started
MaxTicks == 1          \* advances of the clock
MaxRetrieves == 3      \* retrieves counted in the access_count of the live objects
Capacity == 2          \* stm_capacity given to the constructor
QueryCapacity == 6     \* stm_capacity of the runs that exercise retrieve(query)
QueryObjects == 6      \* MemoryItem objects allocated in those runs
NumThreads == 2        \* threads that call into the memory system at the same time
SetupObjects == 2      \* MemoryItem objects allocated before the threads start
SetupRetrieves == 1    \* retrieves made before the threads start

\* ------------------------------------------------------ program constants
retention_minutes == 30
DECAY_RATE == 10
BUMP == 5
FULL == 100
PROMOTE_AT == 80
DAYS_PER_YEAR == 365
MINUTES_PER_DAY == 1440
MAINTAIN_MIN_IMPORTANCE == 10
MAINTAIN_MAX_AGE_DAYS == 365
TOP_K_DEFAULT == 10
TOP_K_RETRIEVE == 5

\* --------------------------------------------------------------- floats
\* the spacing of the floats around the value (h * 2^57 + k) / (100 * 2^57),
\* in units of 2^-57, for values in [2^-5, 4)
Ulp(h, k) ==
    IF h > 200 \/ (h = 200 /\ k >= 0) THEN 64
    ELSE IF h > 100 \/ (h = 100 /\ k >= 0) THEN 32
    ELSE IF h > 50 \/ (h = 50 /\ k >= 0) THEN 16
    ELSE IF h > 25 \/ (h = 25 /\ k >= 0) THEN 8
    ELSE IF h >= 13 THEN 4
    ELSE IF h >= 7 THEN 2
    ELSE 1

\* 2^57 modulo 200 * u
TwoTo57Mod(u) ==
    CASE u = 1 -> 72 [] u = 2 -> 272 [] u = 4 -> 672 [] u = 8 -> 1472
      [] u \in {16, 32, 64} -> 3072

\* round to nearest, ties to even: the float nearest to the exact value
\* (h * 2^57 + k) / (100 * 2^57).  q is the exact value, in units of
\* 2^-57 / 100, modulo two spacings.
Round(h, k) ==
    LET u == Ulp(h, k)
        q == (h * TwoTo57Mod(u) + k) % (200 * u)
        r == q % (100 * u)
        odd == q >= 100 * u
    IN  IF r < 50 * u \/ (r = 50 * u /\ ~odd)
        THEN [hundredths |-> h, excess |-> k - r]
        ELSE [hundredths |-> h, excess |-> k + 100 * u - r]

\* a decimal literal of the source, given in hundredths
Float(h) == Round(h, 0)
\* x + y
FloatAdd(x, y) == Round(x.hundredths + y.hundredths, x.excess + y.excess)
\* x < y
FloatLess(x, y) ==
    \/ x.hundredths < y.hundredths
    \/ (x.hundredths = y.hundredths /\ x.excess < y.excess)
\* x >= y
FloatGeq(x, y) == ~FloatLess(x, y)
\* min(x, y) of Python: y when y < x, else x
FloatMin(x, y) == IF FloatLess(y, x) THEN y ELSE x

\* --------------------------------------------------------------- inputs
\* the clock advances by the retention window (which is also the 0.5 h of the
\* first default rule) or by 400 days
HalfHour == retention_minutes
FourHundredDays == 400 * MINUTES_PER_DAY
TickSteps == {HalfHour, FourHundredDays}

In(c, k, i, t, f) ==
    [content |-> c, memory_type |-> k, importance |-> Float(i), tags |-> t, force_long_term |-> f]

Notable == In("x", "episodic", 90, {"a"}, FALSE)
Ordinary == In("x", "semantic", 79, {"b"}, FALSE)
Forced == In("y", "episodic", 20, {}, TRUE)
Threshold == In("y", "semantic", 80, {"a", "b"}, FALSE)
OutOfRange == In("y", "episodic", 120, {"a"}, FALSE)

StoreInputs == { Notable, Ordinary, Forced, Threshold, OutOfRange }

PruneInputs == { <<10, 365>>, <<50, 1000>> }

NoId == <<"", -1>>

Rule(a, i, h, t) ==
    [min_access_count |-> a, min_importance |-> Float(i), min_age_minutes |-> h, required_tags |-> t]

DefaultRules == << Rule(2, 70, 30, {}), Rule(5, 50, 60, {}) >>
TaggedRules == << Rule(2, 70, 30, {"a"}), Rule(3, 50, 60, {}) >>

\* a run: what the callers store, and the rule list the orchestrator is given
Run(inputs, rules) == [inputs |-> inputs, rules |-> rules]

Shouted == In("X", "semantic", 80, {"b"}, FALSE)
TwoWords == In("x y", "episodic", 20, {}, TRUE)

\* what the callers store in the runs that exercise retrieve(query)
QueryInputs == { Notable, Shouted, TwoWords }

\* an item whose content is one space
Blank == In(" ", "episodic", 90, {}, FALSE)
BlankQueries == { "", " ", "x" }

Runs ==
    { Run({Notable, Ordinary}, DefaultRules),
      Run({Notable, Ordinary}, TaggedRules),
      Run({Forced, Threshold}, DefaultRules),
      Run({Ordinary, OutOfRange}, TaggedRules) }

VARIABLES
    now,                 \* datetime.now(), minutes
    heap,                \* object reference -> MemoryItem fields
    nextRef,             \* next free object reference
    items,               \* ShortTermMemory.items: deque of references
    item_map,            \* ShortTermMemory.item_map: id -> reference
    index,               \* LongTermMemory.index: id -> reference
    tag_index,           \* LongTermMemory.tag_index: tag -> set of ids
    type_index,          \* LongTermMemory.type_index: kind -> set of ids
    disk,                \* storage_path: id -> contents of <id>.json
    consolidation_rules, \* LayeredMemorySystem.consolidation_rules
    workload,            \* the inputs the callers of this run pass to store
    max_capacity,        \* ShortTermMemory.max_capacity
    storage,             \* environment: what a write to the storage path does now
    stored,              \* history: references stored since creation or clear()
    last,                \* history (SpecTraced only): the last call of consolidate_memories
    threads              \* SpecThreads only: the call each thread is in, its position and locals

vars == << now, heap, nextRef, items, item_map, index, tag_index, type_index,
           disk, consolidation_rules, workload, max_capacity, storage, stored, last,
           threads >>

\* -------------------------------------------------------------- helpers
Min(a, b) == IF a <= b THEN a ELSE b
Empty == [x \in {} |-> 0]
Put(f, k, v) == [x \in DOMAIN f \cup {k} |-> IF x = k THEN v ELSE f[x]]
Restrict(f, S) == [x \in S |-> f[x]]
Range(f) == { f[x] : x \in DOMAIN f }
Bucket(f, k) == IF k \in DOMAIN f THEN f[k] ELSE {}

RECURSIVE SumAccess(_, _)
SumAccess(h, refs) ==
    IF refs = {} THEN 0
    ELSE LET r == CHOOSE x \in refs : TRUE
         IN  (h[r].access_count - 1) + SumAccess(h, refs \ {r})

\* retrieves that the live objects have seen
Retrieves == SumAccess(heap, DOMAIN heap)

NumTicks == (now \div FourHundredDays) + ((now % FourHundredDays) \div HalfHour)

\* the memory system as one value: the operators below map a state to a state
State ==
    [heap |-> heap, items |-> items, item_map |-> item_map, index |-> index,
     tag_index |-> tag_index, type_index |-> type_index, disk |-> disk]

\* the objects some collection still refers to (the rest is freed)
Live(S) ==
    Restrict(S.heap, DOMAIN S.heap \cap (Range(S.items) \cup Range(S.item_map) \cup Range(S.index)))

\* the variables take the values of S
Becomes(S) ==
    /\ heap' = Live(S)
    /\ items' = S.items
    /\ item_map' = S.item_map
    /\ index' = S.index
    /\ tag_index' = S.tag_index
    /\ type_index' = S.type_index
    /\ disk' = S.disk

MemoryId(content, t) == << content, t >>

MemoryItem(mid, inp, t) ==
    [memory_id |-> mid, content |-> inp.content, memory_type |-> inp.memory_type,
     importance |-> inp.importance, access_count |-> 1, created_at |-> t,
     decay_rate |-> DECAY_RATE, tags |-> inp.tags]

\* ------------------------------------------------------ ShortTermMemory
\* faulty variants of DequeAppend: a list that never evicts, a deque that evicts the newest
DequeAppendUnbounded(q, r) == Append(q, r)

DequeAppendDropNewest(q, r) ==
    IF max_capacity = 0 THEN q
    ELSE IF Len(q) >= max_capacity THEN Append(SubSeq(q, 1, Len(q) - 1), r)
    ELSE Append(q, r)

\* deque(maxlen=max_capacity).append
DequeAppend(q, r) ==
    IF max_capacity = 0 THEN q
    ELSE IF Len(q) >= max_capacity THEN Append(Tail(q), r)
    ELSE Append(q, r)

\* faulty variant of Expired: an entry expires when its age reaches the window
ExpiredAtRetention(h, m, t) == { i \in DOMAIN m : t - h[m[i]].created_at >= retention_minutes }

\* the ids that _cleanup_expired collects
Expired(h, m, t) == { i \in DOMAIN m : t - h[m[i]].created_at > retention_minutes }

CleanupExpired(h, m, t) == Restrict(m, DOMAIN m \ Expired(h, m, t))

\* faulty variant of StmStore: the entry of the item that the deque drops is
\* deleted from the side table
StmStoreEvictsBoth(S, inp, t, r) ==
    LET mid == MemoryId(inp.content, t)
        h == Put(S.heap, r, MemoryItem(mid, inp, t))
        q == DequeAppend(S.items, r)
        m == Put(S.item_map, mid, r)
    IN  [S EXCEPT !.heap = h,
                  !.items = q,
                  !.item_map = CleanupExpired(h, Restrict(m, { i \in DOMAIN m : m[i] \in Range(q) }), t)]

\* ShortTermMemory.store at clock reading t; r is the new object
StmStore(S, inp, t, r) ==
    LET mid == MemoryId(inp.content, t)
        h == Put(S.heap, r, MemoryItem(mid, inp, t))
    IN  [S EXCEPT !.heap = h,
                  !.items = DequeAppend(S.items, r),
                  !.item_map = CleanupExpired(h, Put(S.item_map, mid, r), t)]

\* faulty variant of StmRetrieveItem: the bump is not capped
StmRetrieveItemNoClamp(S, mid) ==
    IF mid \in DOMAIN S.item_map
    THEN LET r == S.item_map[mid] IN
         [S EXCEPT !.heap[r].access_count = @ + 1,
                   !.heap[r].importance = FloatAdd(@, Float(BUMP))]
    ELSE S

\* ShortTermMemory.retrieve(memory_id)
StmRetrieveItem(S, mid) ==
    IF mid \in DOMAIN S.item_map
    THEN LET r == S.item_map[mid] IN
         [S EXCEPT !.heap[r].access_count = @ + 1,
                   !.heap[r].importance = FloatMin(Float(FULL), FloatAdd(@, Float(BUMP)))]
    ELSE S

\* the absent result: the reference of no object
None == 0

\* what ShortTermMemory.retrieve(memory_id) returns: the object, or None
StmRetrieveResult(S, mid) == IF mid \in DOMAIN S.item_map THEN S.item_map[mid] ELSE None

\* ShortTermMemory.clear()
StmClearAll(S) == [S EXCEPT !.items = << >>, !.item_map = Empty]

\* ------------------------------------------------------- LongTermMemory
\* what a write to the storage path can do
WriteOutcomes == { "written", "refused", "partial" }

\* the contents of a file that json.loads rejects
Partial == [partial |-> TRUE]
\* json.loads and MemoryItem(**data) accept the contents of the file
WellFormed(record) == "memory_id" \in DOMAIN record

\* the contents of a file that holds the record of item with "tags": null
NullTags(item) ==
    [f \in (DOMAIN item \ {"tags"}) \cup {"null"} |-> IF f = "null" THEN "tags" ELSE item[f]]
\* `for tag in item.tags` can iterate
TagsIterable(record) == "tags" \in DOMAIN record

\* LongTermMemory._save_memory: json.dumps(asdict(item))
\* written to <memory_id>.json.  write_text raises when the file cannot be
\* opened (the directory keeps what it had) or when the write fails after the
\* file was opened and truncated (an empty or cut-off file is left); the
\* exception is caught.
SaveMemory(d, item) ==
    CASE storage = "written" -> Put(d, item.memory_id, item)
      [] storage = "refused" -> d
      [] storage = "partial" -> Put(d, item.memory_id, Partial)

AddToBucket(f, k, mid) == Put(f, k, Bucket(f, k) \cup {mid})

RECURSIVE AddTags(_, _, _)
AddTags(f, tags, mid) ==
    IF tags = {} THEN f
    ELSE LET t == CHOOSE x \in tags : TRUE
         IN  AddTags(AddToBucket(f, t, mid), tags \ {t}, mid)

\* faulty variant of LtmStore: storing an item counts as an access to it
LtmStoreCountsAccess(S, r) ==
    LET h == [S.heap EXCEPT ![r].access_count = @ + 1]
        item == h[r]
    IN  [S EXCEPT !.heap = h,
                  !.index = Put(S.index, item.memory_id, r),
                  !.disk = SaveMemory(S.disk, item),
                  !.tag_index = AddTags(S.tag_index, item.tags, item.memory_id),
                  !.type_index = AddToBucket(S.type_index, item.memory_type, item.memory_id)]

\* faulty variant of LtmStore: a write that fails ends the store after the
\* assignment to the index (the exception is not caught)
LtmStoreWriteRaises(S, r) ==
    LET item == S.heap[r] IN
    IF storage = "written"
    THEN [S EXCEPT !.index = Put(S.index, item.memory_id, r),
                   !.disk = SaveMemory(S.disk, item),
                   !.tag_index = AddTags(S.tag_index, item.tags, item.memory_id),
                   !.type_index = AddToBucket(S.type_index, item.memory_type, item.memory_id)]
    ELSE [S EXCEPT !.index = Put(S.index, item.memory_id, r),
                   !.disk = SaveMemory(S.disk, item)]

\* LongTermMemory.store(item): the index takes the object r itself, not a copy
LtmStore(S, r) ==
    LET item == S.heap[r] IN
    [S EXCEPT !.index = Put(S.index, item.memory_id, r),
              !.disk = SaveMemory(S.disk, item),
              !.tag_index = AddTags(S.tag_index, item.tags, item.memory_id),
              !.type_index = AddToBucket(S.type_index, item.memory_type, item.memory_id)]

\* faulty variant of LtmRetrieveItem: an id that the primary map does not hold
\* is looked up in the side table
LtmRetrieveFallsBack(S, mid) ==
    IF mid \in DOMAIN S.index
    THEN LET r == S.index[mid]
             h == [S.heap EXCEPT ![r].access_count = @ + 1]
         IN  [S EXCEPT !.heap = h, !.disk = SaveMemory(S.disk, h[r])]
    ELSE StmRetrieveItem(S, mid)

\* a retrieve that writes the record before it counts the access
LtmRetrieveSavesFirst(S, mid) ==
    IF mid \in DOMAIN S.index
    THEN LET r == S.index[mid]
             h == [S.heap EXCEPT ![r].access_count = @ + 1]
         IN  [S EXCEPT !.heap = h, !.disk = SaveMemory(S.disk, S.heap[r])]
    ELSE S

\* LongTermMemory.retrieve(memory_id)
LtmRetrieveItem(S, mid) ==
    IF mid \in DOMAIN S.index
    THEN LET r == S.index[mid]
             h == [S.heap EXCEPT ![r].access_count = @ + 1]
         IN  [S EXCEPT !.heap = h, !.disk = SaveMemory(S.disk, h[r])]
    ELSE S

\* what LongTermMemory.retrieve(memory_id) returns: the object, or None
LtmRetrieveResult(S, mid) == IF mid \in DOMAIN S.index THEN S.index[mid] ELSE None

\* age.days
AgeDays(item, t) == (t - item.created_at) \div MINUTES_PER_DAY

\* decayed_importance < min_importance, both sides multiplied by
\* 100 * DAYS_PER_YEAR; min_importance is in hundredths
DecayedBelow(item, t, min_importance) ==
    item.importance.hundredths * (100 * DAYS_PER_YEAR - item.decay_rate * AgeDays(item, t))
        < min_importance * 100 * DAYS_PER_YEAR

\* age > max_age
TooOld(item, t, max_age_days) == t - item.created_at > max_age_days * MINUTES_PER_DAY

\* faulty variant of ShouldRemove: both conditions are required
ShouldRemoveBoth(item, t, min_importance, max_age_days) ==
    DecayedBelow(item, t, min_importance) /\ TooOld(item, t, max_age_days)

ShouldRemove(item, t, min_importance, max_age_days) ==
    DecayedBelow(item, t, min_importance) \/ TooOld(item, t, max_age_days)

ToRemove(S, t, min_importance, max_age_days) ==
    { mid \in DOMAIN S.index :
        ShouldRemove(S.heap[S.index[mid]], t, min_importance, max_age_days) }

RECURSIVE DiscardTags(_, _, _)
DiscardTags(f, tags, mid) ==
    IF tags = {} THEN f
    ELSE LET t == CHOOSE x \in tags : TRUE
             g == IF t \in DOMAIN f THEN [f EXCEPT ![t] = @ \ {mid}] ELSE f
         IN  DiscardTags(g, tags \ {t}, mid)

\* the body of the removal loop of prune
RemoveOne(S, mid) ==
    LET item == S.heap[S.index[mid]] IN
    [S EXCEPT !.index = Restrict(S.index, DOMAIN S.index \ {mid}),
              !.tag_index = DiscardTags(S.tag_index, item.tags, mid),
              !.type_index = IF item.memory_type \in DOMAIN S.type_index
                             THEN [S.type_index EXCEPT ![item.memory_type] = @ \ {mid}]
                             ELSE S.type_index,
              !.disk = Restrict(S.disk, DOMAIN S.disk \ {mid})]

RECURSIVE RemoveAll(_, _)
RemoveAll(S, ids) ==
    IF ids = {} THEN S
    ELSE LET mid == CHOOSE x \in ids : TRUE
         IN  RemoveAll(RemoveOne(S, mid), ids \ {mid})

\* LongTermMemory.prune(min_importance, max_age_days) at clock reading t
Prune(S, t, min_importance, max_age_days) ==
    RemoveAll(S, ToRemove(S, t, min_importance, max_age_days))

\* what prune returns: len(to_remove)
PruneResult(S, t, min_importance, max_age_days) ==
    Cardinality(ToRemove(S, t, min_importance, max_age_days))

\* LongTermMemory.search.  An argument that is not given (None) or empty is
\* "" for query and memory_type and {} for tags.
TagMatches(S, tags) == UNION { Bucket(S.tag_index, t) : t \in tags }

\* the candidate ids after the tags filter and the type filter
Candidates(S, tags, memory_type) ==
    LET all == DOMAIN S.index
        tagged == IF tags # {} THEN all \cap TagMatches(S, tags) ELSE all
    IN  IF memory_type # "" /\ memory_type \in DOMAIN S.type_index
        THEN tagged \cap S.type_index[memory_type]
        ELSE tagged

\* the items of the candidates that pass the importance filter
Filtered(S, tags, memory_type, min_importance) ==
    { S.index[mid] : mid \in
        { c \in Candidates(S, tags, memory_type) :
            FloatGeq(S.heap[S.index[c]].importance, min_importance) } }

\* ---------------------------------------------------------------- search
\* the characters of the strings used as content and as query
Chars(str) ==
    CASE str = "" -> << >>
      [] str = "x" -> << "x" >>
      [] str = "y" -> << "y" >>
      [] str = "X" -> << "X" >>
      [] str = "z" -> << "z" >>
      [] str = "x y" -> << "x", " ", "y" >>
      [] str = " " -> << " " >>

LowerChar(ch) == IF ch = "X" THEN "x" ELSE IF ch = "Y" THEN "y" ELSE ch
\* str.lower()
Lower(c) == [i \in 1..Len(c) |-> LowerChar(c[i])]

MatchesAt(q, c, i) ==
    /\ i + Len(q) - 1 <= Len(c)
    /\ \A j \in 1..Len(q) : c[i + j - 1] = q[j]

\* q in c
Contains(q, c) == \E i \in 1..(Len(c) + 1) : MatchesAt(q, c, i)

\* c.count(q): the occurrences of q in c that do not overlap, from position i on
RECURSIVE CountFrom(_, _, _)
CountFrom(q, c, i) ==
    IF Len(q) = 0 THEN Len(c) + 2 - i
    ELSE IF i + Len(q) - 1 > Len(c) THEN 0
    ELSE IF MatchesAt(q, c, i) THEN 1 + CountFrom(q, c, i + Len(q))
    ELSE CountFrom(q, c, i + 1)

IsSpace(ch) == ch \in {" ", "\t", "\n"}
\* len(c.split())
WordCount(c) ==
    Cardinality({ i \in 1..Len(c) : ~IsSpace(c[i]) /\ (i = 1 \/ IsSpace(c[i - 1])) })

\* query_lower in item.content.lower()
QueryMatches(item, query) == Contains(Lower(Chars(query)), Lower(Chars(item.content)))

\* the key (importance, access_count) of a is greater than that of b
KeyAbove(a, b) ==
    \/ FloatLess(b.importance, a.importance)
    \/ (a.importance = b.importance /\ a.access_count > b.access_count)

\* the score of a is greater than that of b.  The score is
\* relevance * importance, times (1 + access_count * 0.1) when boosted, with
\* relevance = count / words; the two scores are compared as exact fractions
\* (the rounding of the quotient and of the products is not modelled).
ScoreAbove(a, b, query, boosted) ==
    LET q == Lower(Chars(query))
        ca == CountFrom(q, Lower(Chars(a.content)), 1)
        cb == CountFrom(q, Lower(Chars(b.content)), 1)
        wa == WordCount(Chars(a.content))
        wb == WordCount(Chars(b.content))
        fa == IF boosted THEN 10 + a.access_count ELSE 1
        fb == IF boosted THEN 10 + b.access_count ELSE 1
        A == ca * fa * wb
        B == cb * fb * wa
    IN  \/ A * a.importance.hundredths > B * b.importance.hundredths
        \/ /\ A * a.importance.hundredths = B * b.importance.hundredths
           /\ A * a.importance.excess > B * b.importance.excess

\* the order of a sort: by key, by the score of ShortTermMemory.search, or by
\* the score of LongTermMemory.search
Above(a, b, query, order) ==
    CASE order = "key" -> KeyAbove(a, b)
      [] order = "stm" -> ScoreAbove(a, b, query, FALSE)
      [] order = "ltm" -> ScoreAbove(a, b, query, TRUE)

\* list.sort(reverse=True) of a list built by iterating a set: descending, and
\* the order of items that compare equal is the set's iteration order, which is
\* any order.  The lists this can give.
RECURSIVE SortedDescending(_, _, _, _)
SortedDescending(S, refs, query, order) ==
    IF refs = {} THEN { << >> }
    ELSE LET top == { m \in refs :
                        \A o \in refs : ~Above(S.heap[o], S.heap[m], query, order) }
         IN  UNION { { << m >> \o s : s \in SortedDescending(S, refs \ {m}, query, order) } :
                     m \in top }

\* list.sort(reverse=True) of the list q: descending, items that compare equal
\* keep their order (the sort is stable).  The last item of q goes behind the
\* items of the sorted rest that it is not above.
RECURSIVE StableSortedDescending(_, _, _, _)
StableSortedDescending(S, q, query, order) ==
    IF q = << >> THEN << >>
    ELSE LET n == Len(q)
             sorted == StableSortedDescending(S, SubSeq(q, 1, n - 1), query, order)
             p == Cardinality({ i \in 1..(n - 1) :
                                  ~Above(S.heap[q[n]], S.heap[sorted[i]], query, order) })
         IN  SubSeq(sorted, 1, p) \o << q[n] >> \o SubSeq(sorted, p + 1, n - 1)

\* s[:k]
Take(s, k) ==
    IF k >= 0 THEN SubSeq(s, 1, Min(k, Len(s)))
    ELSE SubSeq(s, 1, IF Len(s) + k > 0 THEN Len(s) + k ELSE 0)

\* ShortTermMemory.search(query, top_k)
StmSearch(S, query, top_k) ==
    LET matches == SelectSeq(S.items, LAMBDA r : QueryMatches(S.heap[r], query))
    IN  Take(StableSortedDescending(S, matches, query, "stm"), top_k)

\* faulty variant of LtmSearchNoQuery: the sort is ascending
LtmSearchNoQueryAscending(S, tags, memory_type, min_importance, top_k) ==
    { Take([i \in 1..Len(s) |-> s[Len(s) + 1 - i]], top_k) :
        s \in SortedDescending(S, Filtered(S, tags, memory_type, min_importance), "", "key") }

\* LongTermMemory.search without a query: the lists it can return
LtmSearchNoQuery(S, tags, memory_type, min_importance, top_k) ==
    { Take(s, top_k) :
        s \in SortedDescending(S, Filtered(S, tags, memory_type, min_importance), "", "key") }

\* LongTermMemory.search(query, tags, memory_type, min_importance, top_k): the
\* lists it can return
LtmSearch(S, query, tags, memory_type, min_importance, top_k) ==
    IF query # ""
    THEN { Take(s, top_k) :
             s \in SortedDescending(S,
                     { r \in Filtered(S, tags, memory_type, min_importance) :
                         QueryMatches(S.heap[r], query) },
                     query, "ltm") }
    ELSE LtmSearchNoQuery(S, tags, memory_type, min_importance, top_k)

\* `count(query_lower) / len(item.content.split())` raises ZeroDivisionError:
\* the item matches the query and its content has no word
DividesByZero(item, query) ==
    QueryMatches(item, query) /\ WordCount(Chars(item.content)) = 0

\* ShortTermMemory.search(query) raises
StmSearchRaises(S, query) ==
    \E r \in Range(S.items) : DividesByZero(S.heap[r], query)

\* LongTermMemory.search(query=query) raises: the scoring loop runs only for a
\* query that is not empty
LtmSearchRaises(S, query, tags, memory_type, min_importance) ==
    /\ query # ""
    /\ \E r \in Filtered(S, tags, memory_type, min_importance) : DividesByZero(S.heap[r], query)

\* LayeredMemorySystem.retrieve(query, search_both) raises
RetrieveRaises(S, query, search_both) ==
    \/ StmSearchRaises(S, query)
    \/ search_both /\ LtmSearchRaises(S, query, {}, "", Float(0))

\* ------------------------------------------------- LayeredMemorySystem
MirrorsOnStore(inp) == inp.force_long_term \/ FloatGeq(inp.importance, Float(PROMOTE_AT))

\* faulty variant of StoreItem: a store also runs the pruning of auto_maintain
StoreItemThenPrune(S, inp, t, r) ==
    LET T == StmStore(S, inp, t, r)
    IN  Prune(IF MirrorsOnStore(inp) THEN LtmStore(T, r) ELSE T, t,
              MAINTAIN_MIN_IMPORTANCE, MAINTAIN_MAX_AGE_DAYS)

\* LayeredMemorySystem.store
StoreItem(S, inp, t, r) ==
    LET T == StmStore(S, inp, t, r)
    IN  IF MirrorsOnStore(inp) THEN LtmStore(T, r) ELSE T

\* faulty variant of RuleLoop: a rule that fails on its tags ends the loop
RECURSIVE RuleLoopBreakOnTags(_, _, _, _)
RuleLoopBreakOnTags(rules, k, item, age_minutes) ==
    IF k > Len(rules) THEN FALSE
    ELSE LET rule == rules[k] IN
         IF /\ item.access_count >= rule.min_access_count
            /\ FloatGeq(item.importance, rule.min_importance)
            /\ age_minutes >= rule.min_age_minutes
         THEN ~(rule.required_tags # {} /\ rule.required_tags \cap item.tags = {})
         ELSE RuleLoopBreakOnTags(rules, k + 1, item, age_minutes)

\* faulty variant of RuleLoop: min_access_count is not looked at
RECURSIVE RuleLoopAnyCount(_, _, _, _)
RuleLoopAnyCount(rules, k, item, age_minutes) ==
    IF k > Len(rules) THEN FALSE
    ELSE LET rule == rules[k] IN
         IF /\ FloatGeq(item.importance, rule.min_importance)
            /\ age_minutes >= rule.min_age_minutes
         THEN IF rule.required_tags # {} /\ rule.required_tags \cap item.tags = {}
              THEN RuleLoopAnyCount(rules, k + 1, item, age_minutes)
              ELSE TRUE
         ELSE RuleLoopAnyCount(rules, k + 1, item, age_minutes)

\* the rule loop of consolidate_memories from rule k on: TRUE when it reaches
\* the promotion (and the break), FALSE when the rules are exhausted
RECURSIVE RuleLoop(_, _, _, _)
RuleLoop(rules, k, item, age_minutes) ==
    IF k > Len(rules) THEN FALSE
    ELSE LET rule == rules[k] IN
         IF /\ item.access_count >= rule.min_access_count
            /\ FloatGeq(item.importance, rule.min_importance)
            /\ age_minutes >= rule.min_age_minutes
         THEN IF rule.required_tags # {} /\ rule.required_tags \cap item.tags = {}
              THEN RuleLoop(rules, k + 1, item, age_minutes)
              ELSE TRUE
         ELSE RuleLoop(rules, k + 1, item, age_minutes)

RECURSIVE ConsolidateFrom(_, _, _, _, _, _)

\* faulty variant of ConsolidateFrom: an item is promoted whether or not its id
\* is in the primary map
RECURSIVE ConsolidateFromAlways(_, _, _, _, _, _)
ConsolidateFromAlways(S, q, i, rules, t, count) ==
    IF i > Len(q) THEN [state |-> S, consolidated |-> count]
    ELSE IF RuleLoop(rules, 1, S.heap[q[i]], t - S.heap[q[i]].created_at)
         THEN ConsolidateFromAlways(LtmStore(S, q[i]), q, i + 1, rules, t, count + 1)
         ELSE ConsolidateFromAlways(S, q, i + 1, rules, t, count)

\* faulty variant of ConsolidateFrom: a promoted item is moved, not copied
MoveOut(S, r) ==
    [S EXCEPT !.items = SelectSeq(S.items, LAMBDA x : x # r),
              !.item_map = Restrict(S.item_map, { m \in DOMAIN S.item_map : S.item_map[m] # r })]

RECURSIVE ConsolidateFromMove(_, _, _, _, _, _)
ConsolidateFromMove(S, q, i, rules, t, count) ==
    IF i > Len(q) THEN [state |-> S, consolidated |-> count]
    ELSE IF /\ RuleLoop(rules, 1, S.heap[q[i]], t - S.heap[q[i]].created_at)
            /\ S.heap[q[i]].memory_id \notin DOMAIN S.index
         THEN ConsolidateFromMove(MoveOut(LtmStore(S, q[i]), q[i]), q, i + 1, rules, t, count + 1)
         ELSE ConsolidateFromMove(S, q, i + 1, rules, t, count)

\* the loop of consolidate_memories over q = short_term.get_all() from position i on
ConsolidateFrom(S, q, i, rules, t, count) ==
    IF i > Len(q) THEN [state |-> S, consolidated |-> count]
    ELSE LET r == q[i]
             item == S.heap[r]
         IN  IF /\ RuleLoop(rules, 1, item, t - item.created_at)
                /\ item.memory_id \notin DOMAIN S.index
             THEN ConsolidateFrom(LtmStore(S, r), q, i + 1, rules, t, count + 1)
             ELSE ConsolidateFrom(S, q, i + 1, rules, t, count)

\* faulty variant of ConsolidateMemories: the loop also takes the items that
\* only the side table still holds
ConsolidateMemoriesOverMap(S, rules, t) ==
    LET extra == Range(S.item_map) \ Range(S.items)
        rest == CHOOSE q \in [1..Cardinality(extra) -> extra] : Range(q) = extra
    IN  ConsolidateFrom(S, S.items \o rest, 1, rules, t, 0)

\* LayeredMemorySystem.consolidate_memories at clock reading t
ConsolidateMemories(S, rules, t) == ConsolidateFrom(S, S.items, 1, rules, t, 0)

\* the dict that consolidate_memories returns (without the timestamp)
ConsolidateSummary(S, rules, t) ==
    LET c == ConsolidateMemories(S, rules, t) IN
    [consolidated |-> c.consolidated,
     stm_count |-> Len(c.state.items),
     ltm_count |-> Cardinality(DOMAIN c.state.index)]

\* faulty variant of AutoMaintainAt: the pruning runs before the promotions
AutoMaintainPruneFirst(S, rules, t) ==
    ConsolidateMemories(Prune(S, t, MAINTAIN_MIN_IMPORTANCE, MAINTAIN_MAX_AGE_DAYS),
                        rules, t).state

\* LayeredMemorySystem.auto_maintain
AutoMaintainAt(S, rules, t) ==
    Prune(ConsolidateMemories(S, rules, t).state, t,
          MAINTAIN_MIN_IMPORTANCE, MAINTAIN_MAX_AGE_DAYS)

\* faulty variant of Dedupe: the ids of the items kept are not remembered
DedupeForgetful(S, q, seen) ==
    SelectSeq(q, LAMBDA r : S.heap[r].memory_id \notin seen)

\* the list q without the items whose id an earlier item of q (or seen) has
RECURSIVE Dedupe(_, _, _)
Dedupe(S, q, seen) ==
    IF q = << >> THEN << >>
    ELSE LET mid == S.heap[Head(q)].memory_id IN
         IF mid \in seen THEN Dedupe(S, Tail(q), seen)
         ELSE << Head(q) >> \o Dedupe(S, Tail(q), seen \cup {mid})

\* LayeredMemorySystem.retrieve(query, search_both): the results of the two
\* searches and the list returned, for each list LongTermMemory.search can return
RetrieveQuery(S, query, search_both) ==
    { [stm |-> StmSearch(S, query, TOP_K_RETRIEVE),
       ltm |-> lt,
       result |-> StableSortedDescending(S,
                     Dedupe(S, StmSearch(S, query, TOP_K_RETRIEVE) \o lt, {}), "", "key")] :
        lt \in IF search_both
               THEN LtmSearch(S, query, {}, "", Float(0), TOP_K_RETRIEVE)
               ELSE { << >> } }

\* ------------------------------------------------------------- restart
\* LongTermMemory._load_memories: one new object per record of the directory;
\* a file that cannot be parsed is skipped; a record whose tags cannot be
\* iterated raises after the assignment to the index, and the exception is
\* caught
RECURSIVE LoadFrom(_, _)
LoadFrom(S, files) ==
    IF files = {} THEN S
    ELSE LET f == CHOOSE x \in files : TRUE
             r == Cardinality(DOMAIN S.heap) + 1
             item == S.disk[f]
         IN  IF ~WellFormed(item) THEN LoadFrom(S, files \ {f})
             ELSE IF ~TagsIterable(item)
             THEN LoadFrom([S EXCEPT !.heap = Put(S.heap, r, item),
                                     !.index = Put(S.index, item.memory_id, r)],
                           files \ {f})
             ELSE
             LoadFrom([S EXCEPT !.heap = Put(S.heap, r, item),
                                !.index = Put(S.index, item.memory_id, r),
                                !.tag_index = AddTags(S.tag_index, item.tags, item.memory_id),
                                !.type_index = AddToBucket(S.type_index, item.memory_type,
                                                           item.memory_id)],
                      files \ {f})

\* LayeredMemorySystem.__init__ on a storage path that holds the records d
Construct(d) ==
    LoadFrom([heap |-> Empty, items |-> << >>, item_map |-> Empty, index |-> Empty,
              tag_index |-> Empty, type_index |-> Empty, disk |-> d],
             DOMAIN d)

\* ------------------------------------------------------------- threads
\* The classes hold no lock: a call made on one thread runs its statements
\* between the statements of a call made on another.  A thread is a record:
\* the call it is in (op), the statement it is about to run (pc), the
\* arguments (mid, inp) and the locals of the call.
ThreadIds == 1..NumThreads

NoInput == In("", "", 0, {}, FALSE)

Thread(op, pc, mid, inp) ==
    [op |-> op, pc |-> pc, mid |-> mid, inp |-> inp,
     item |-> None,          \* item
     n |-> 0,                \* the access_count read by `item.access_count += 1`
     before |-> 0,           \* history: the access_count when the thread started
     imp |-> Float(0),       \* the importance read by `item.importance + 0.05`
     size |-> 0,             \* the size of the dict when its iterator was made
     ids |-> {},             \* expired_ids / to_remove still to go
     removed |-> 0,          \* len(to_remove)
     snap |-> << >>,         \* the list returned by get_all()
     pos |-> 0,              \* the position of the for loop in it
     evaluated |-> << >>,    \* history: the items the for loop has taken
     counted |-> << >>,      \* history: the items counted in consolidated_count
     err |-> ""]             \* the exception that ended the call

Idle == Thread("idle", "idle", NoId, NoInput)
NoThreads == [t \in ThreadIds |-> Idle]

\* the call has returned or raised
Ended(th) == th.pc \in {"idle", "done", "raised"}

Raise(S, th, e) == [state |-> S, th |-> [th EXCEPT !.pc = "raised", !.err = e]]
Goto(S, th, pc) == [state |-> S, th |-> [th EXCEPT !.pc = pc]]

\* ShortTermMemory.retrieve, statement by statement: item_map.get, the read
\* and the write of `item.access_count += 1`, the read and the write of
\* `item.importance = min(1.0, item.importance + 0.05)`
StmRetrieveStep(S, th) ==
    LET r == th.item IN
    CASE th.pc = "get" ->
            IF StmRetrieveResult(S, th.mid) = None THEN Goto(S, th, "done")
            ELSE Goto(S, [th EXCEPT !.item = StmRetrieveResult(S, th.mid)], "load_count")
      [] th.pc = "load_count" ->
            Goto(S, [th EXCEPT !.n = S.heap[r].access_count], "store_count")
      [] th.pc = "store_count" ->
            Goto([S EXCEPT !.heap[r].access_count = th.n + 1], th, "load_importance")
      [] th.pc = "load_importance" ->
            Goto(S, [th EXCEPT !.imp = S.heap[r].importance], "store_importance")
      [] th.pc = "store_importance" ->
            Goto([S EXCEPT !.heap[r].importance = FloatMin(Float(FULL), FloatAdd(th.imp, Float(BUMP)))],
                 th, "done")

\* LongTermMemory.retrieve, statement by statement: index.get, the read and
\* the write of `item.access_count += 1`, _save_memory
LtmRetrieveStep(S, th) ==
    LET r == th.item IN
    CASE th.pc = "get" ->
            IF LtmRetrieveResult(S, th.mid) = None THEN Goto(S, th, "done")
            ELSE Goto(S, [th EXCEPT !.item = LtmRetrieveResult(S, th.mid)], "load_count")
      [] th.pc = "load_count" ->
            Goto(S, [th EXCEPT !.n = S.heap[r].access_count], "store_count")
      [] th.pc = "store_count" ->
            Goto([S EXCEPT !.heap[r].access_count = th.n + 1], th, "save")
      [] th.pc = "save" ->
            Goto([S EXCEPT !.disk = SaveMemory(S.disk, S.heap[r])], th, "done")

\* LongTermMemory.store(item), statement by statement: the assignment to the
\* index, _save_memory, the loop over the tags, the kind bucket; then the
\* caller goes on at pc `after`
LtmStoreStep(S, th, after) ==
    LET r == th.item
        item == S.heap[r]
    IN  CASE th.pc = "index" ->
                Goto([S EXCEPT !.index = Put(S.index, item.memory_id, r)], th, "save")
          [] th.pc = "save" ->
                Goto([S EXCEPT !.disk = SaveMemory(S.disk, item)], th, "tags")
          [] th.pc = "tags" ->
                Goto([S EXCEPT !.tag_index = AddTags(S.tag_index, item.tags, item.memory_id)],
                     th, "type")
          [] th.pc = "type" ->
                Goto([S EXCEPT !.type_index = AddToBucket(S.type_index, item.memory_type,
                                                          item.memory_id)],
                     th, after)

\* a dict iterator raises RuntimeError ("dictionary changed size during
\* iteration") when the dict does not have the size it had when the iterator
\* was made
SizeChanged(m, th) == Cardinality(DOMAIN m) # th.size

\* LayeredMemorySystem.store, statement by statement: in ShortTermMemory.store
\* the append to the deque of the new object r, the assignment to item_map,
\* and in _cleanup_expired the loop over item_map.items() (from the making of
\* the iterator to its end) and one `del` for each expired id; then, for an
\* item that is mirrored, LongTermMemory.store
StoreStep(S, th, t, r) ==
    CASE th.pc = "append" ->
            LET mid == MemoryId(th.inp.content, t) IN
            Goto([S EXCEPT !.heap = Put(S.heap, r, MemoryItem(mid, th.inp, t)),
                           !.items = DequeAppend(S.items, r)],
                 [th EXCEPT !.item = r, !.mid = mid], "map")
      [] th.pc = "map" ->
            Goto([S EXCEPT !.item_map = Put(S.item_map, th.mid, th.item)], th, "scan")
      [] th.pc = "scan" ->
            Goto(S, [th EXCEPT !.size = Cardinality(DOMAIN S.item_map)], "scanned")
      [] th.pc = "scanned" ->
            IF SizeChanged(S.item_map, th) THEN Raise(S, th, "RuntimeError")
            ELSE Goto(S, [th EXCEPT !.ids = Expired(S.heap, S.item_map, t)], "delete")
      [] th.pc = "delete" ->
            IF th.ids = {}
            THEN Goto(S, th, IF MirrorsOnStore(th.inp) THEN "index" ELSE "done")
            ELSE LET mid == CHOOSE x \in th.ids : TRUE IN
                 IF mid \notin DOMAIN S.item_map THEN Raise(S, th, "KeyError")
                 ELSE Goto([S EXCEPT !.item_map = Restrict(S.item_map, DOMAIN S.item_map \ {mid})],
                           [th EXCEPT !.ids = @ \ {mid}], "delete")
      [] OTHER -> LtmStoreStep(S, th, "done")

\* LongTermMemory.prune with the arguments of auto_maintain, statement by
\* statement: the loop over index.items() (from the making of the iterator to
\* its end), and for each id of to_remove the lookup and `del` of the index
\* entry, the tags, the kind bucket and the file
PruneStep(S, th, t) ==
    CASE th.pc = "scan" ->
            Goto(S, [th EXCEPT !.size = Cardinality(DOMAIN S.index)], "scanned")
      [] th.pc = "scanned" ->
            IF SizeChanged(S.index, th) THEN Raise(S, th, "RuntimeError")
            ELSE LET ids == ToRemove(S, t, MAINTAIN_MIN_IMPORTANCE, MAINTAIN_MAX_AGE_DAYS) IN
                 Goto(S, [th EXCEPT !.ids = ids, !.removed = Cardinality(ids)], "remove")
      [] th.pc = "remove" ->
            IF th.ids = {} THEN Goto(S, th, "done")
            ELSE LET mid == CHOOSE x \in th.ids : TRUE IN
                 IF mid \notin DOMAIN S.index THEN Raise(S, th, "KeyError")
                 ELSE Goto([S EXCEPT !.index = Restrict(S.index, DOMAIN S.index \ {mid})],
                           [th EXCEPT !.ids = @ \ {mid}, !.mid = mid, !.item = S.index[mid]],
                           "tags")
      [] th.pc = "tags" ->
            Goto([S EXCEPT !.tag_index = DiscardTags(S.tag_index, S.heap[th.item].tags, th.mid)],
                 th, "type")
      [] th.pc = "type" ->
            LET kind == S.heap[th.item].memory_type IN
            Goto([S EXCEPT !.type_index = IF kind \in DOMAIN S.type_index
                                          THEN [S.type_index EXCEPT ![kind] = @ \ {th.mid}]
                                          ELSE S.type_index],
                 th, "unlink")
      [] th.pc = "unlink" ->
            Goto([S EXCEPT !.disk = Restrict(S.disk, DOMAIN S.disk \ {th.mid})], th, "remove")

\* a loop that takes its next item from the ring buffer itself
NextOfRing(S, th) == IF th.pos <= Len(S.items) THEN S.items[th.pos] ELSE None

\* the next item of `for item in self.short_term.get_all()`: the loop runs
\* over the list that get_all returned, or None at its end
NextOfSnapshot(S, th) == IF th.pos <= Len(th.snap) THEN th.snap[th.pos] ELSE None

\* LayeredMemorySystem.consolidate_memories, statement by statement: get_all
\* (list(deque) runs without a switch of threads), and for each item the rule
\* loop with the test `item.memory_id not in self.long_term.index`,
\* LongTermMemory.store, and `consolidated_count += 1`
ConsolidateStep(S, th, rules, t) ==
    CASE th.pc = "snapshot" ->
            Goto(S, [th EXCEPT !.snap = S.items, !.pos = 1], "evaluate")
      [] th.pc = "evaluate" ->
            LET r == NextOfSnapshot(S, th) IN
            IF r = None THEN Goto(S, th, "done")
            ELSE IF /\ RuleLoop(rules, 1, S.heap[r], t - S.heap[r].created_at)
                    /\ S.heap[r].memory_id \notin DOMAIN S.index
                 THEN Goto(S, [th EXCEPT !.item = r, !.evaluated = Append(@, r)], "index")
                 ELSE Goto(S, [th EXCEPT !.evaluated = Append(@, r), !.pos = @ + 1], "evaluate")
      [] th.pc = "count" ->
            Goto(S, [th EXCEPT !.counted = Append(@, th.item), !.pos = @ + 1], "evaluate")
      [] OTHER -> LtmStoreStep(S, th, "count")

\* the next statement of the call that thread th is in; r is the next free
\* object reference
ThreadStep(S, th, rules, t, r) ==
    CASE th.op = "stm_retrieve" -> StmRetrieveStep(S, th)
      [] th.op = "ltm_retrieve" -> LtmRetrieveStep(S, th)
      [] th.op = "store" -> StoreStep(S, th, t, r)
      [] th.op = "prune" -> PruneStep(S, th, t)
      [] th.op = "consolidate" -> ConsolidateStep(S, th, rules, t)

\* the objects that the locals of the threads refer to
Held(ths) == UNION { {ths[t].item} \cup Range(ths[t].snap) : t \in DOMAIN ths }

\* ------------------------------------------------------------- actions
StoreUpTo(inp, budget) ==
    /\ nextRef <= budget
    /\ Becomes(StoreItem(State, inp, now, nextRef))
    /\ nextRef' = nextRef + 1
    /\ stored' = Append(stored, nextRef)
    /\ UNCHANGED << now, consolidation_rules, workload, max_capacity, storage >>

Store(inp) == StoreUpTo(inp, MaxObjects)

StmRetrieve(mid) ==
    /\ Retrieves < MaxRetrieves
    /\ Becomes(StmRetrieveItem(State, mid))
    /\ UNCHANGED << now, nextRef, consolidation_rules, workload, max_capacity, storage, stored >>

StmClear ==
    /\ Becomes(StmClearAll(State))
    /\ stored' = << >>
    /\ UNCHANGED << now, nextRef, consolidation_rules, workload, max_capacity, storage >>

LtmRetrieve(mid) ==
    /\ Retrieves < MaxRetrieves
    /\ Becomes(LtmRetrieveItem(State, mid))
    /\ UNCHANGED << now, nextRef, consolidation_rules, workload, max_capacity, storage, stored >>

LtmPrune(min_importance, max_age_days) ==
    /\ Becomes(Prune(State, now, min_importance, max_age_days))
    /\ UNCHANGED << now, nextRef, consolidation_rules, workload, max_capacity, storage, stored >>

Consolidate ==
    /\ Becomes(ConsolidateMemories(State, consolidation_rules, now).state)
    /\ UNCHANGED << now, nextRef, consolidation_rules, workload, max_capacity, storage, stored >>

AutoMaintain ==
    /\ Becomes(AutoMaintainAt(State, consolidation_rules, now))
    /\ UNCHANGED << now, nextRef, consolidation_rules, workload, max_capacity, storage, stored >>

\* the process ends and the system is constructed again on the same storage path
RestartOn(d) ==
    /\ Becomes(Construct(d))
    /\ nextRef' = Cardinality(DOMAIN Construct(d).heap) + 1
    /\ stored' = << >>
    /\ UNCHANGED << now, consolidation_rules, workload, max_capacity, storage >>

\* the process ends and the system is constructed again on the same storage path
Restart == RestartOn(disk)

\* where a crash can cut write_text (open for writing, write, close): before
\* the file is opened, after it was opened and truncated, or after the write
CrashPoints == { "unopened", "truncated", "complete" }

\* the directory d after a crash at point w of the write of the record of item
WriteCutShort(d, item, w) ==
    CASE w = "unopened" -> d
      [] w = "truncated" -> Put(d, item.memory_id, Partial)
      [] w = "complete" -> Put(d, item.memory_id, item)

\* the process crashes in the write of LongTermMemory.store, called by a store
\* that mirrors, and the system is constructed again on the same storage path
CrashDuringStore(inp, w) ==
    /\ nextRef <= MaxObjects
    /\ MirrorsOnStore(inp)
    /\ RestartOn(WriteCutShort(disk, MemoryItem(MemoryId(inp.content, now), inp, now), w))

\* the same in the write of LongTermMemory.retrieve
CrashDuringRetrieve(mid, w) ==
    /\ Retrieves < MaxRetrieves
    /\ mid \in DOMAIN index
    /\ RestartOn(WriteCutShort(disk, [heap[index[mid]] EXCEPT !.access_count = @ + 1], w))

\* the clock advances
Tick(d) ==
    /\ NumTicks < MaxTicks
    /\ now' = now + d
    /\ UNCHANGED << heap, nextRef, items, item_map, index, tag_index, type_index,
                    disk, consolidation_rules, workload, max_capacity, storage, stored >>

\* the storage starts or stops failing
StorageChanges(w) ==
    /\ storage # w
    /\ storage' = w
    /\ UNCHANGED << now, heap, nextRef, items, item_map, index, tag_index, type_index,
                    disk, consolidation_rules, workload, max_capacity, stored >>

\* history: the last operation was not consolidate_memories / it was, at clock
\* reading `at`, it reported `consolidated`, and `again` tells whether the
\* operation before it was consolidate_memories too
NotConsolidate == [op |-> "other", at |-> 0, consolidated |-> 0, again |-> FALSE]

ConsolidateCall ==
    [op |-> "consolidate", at |-> now,
     consolidated |-> ConsolidateMemories(State, consolidation_rules, now).consolidated,
     again |-> last.op = "consolidate"]

KnownIds == DOMAIN item_map \cup DOMAIN index \cup {NoId}

Init ==
    /\ now = 0
    /\ nextRef = 1
    /\ heap = Empty
    /\ items = << >>
    /\ item_map = Empty
    /\ index = Empty
    /\ tag_index = Empty
    /\ type_index = Empty
    /\ disk = Empty
    /\ stored = << >>
    /\ last = NotConsolidate
    /\ threads = NoThreads
    /\ max_capacity = Capacity
    /\ storage = "written"
    /\ \E run \in Runs : consolidation_rules = run.rules /\ workload = run.inputs

\* search, get_all, get_important_items, get_statistics, get_memory_status and
\* LayeredMemorySystem.retrieve read the state and change nothing: they are
\* stuttering steps
Next ==
    \/ \E inp \in workload : Store(inp) /\ UNCHANGED << last, threads >>
    \/ \E mid \in KnownIds : StmRetrieve(mid) /\ UNCHANGED << last, threads >>
    \/ \E mid \in KnownIds : LtmRetrieve(mid) /\ UNCHANGED << last, threads >>
    \/ StmClear /\ UNCHANGED << last, threads >>
    \/ \E p \in PruneInputs : LtmPrune(p[1], p[2]) /\ UNCHANGED << last, threads >>
    \/ Consolidate /\ UNCHANGED << last, threads >>
    \/ AutoMaintain /\ UNCHANGED << last, threads >>
    \/ Restart /\ UNCHANGED << last, threads >>
    \/ \E d \in TickSteps : Tick(d) /\ UNCHANGED << last, threads >>

Spec == Init /\ [][Next]_vars

\* the same operations, with the history of consolidate_memories calls kept in `last`
NextTraced ==
    \/ \E inp \in workload : Store(inp) /\ last' = NotConsolidate /\ UNCHANGED threads
    \/ \E mid \in KnownIds : StmRetrieve(mid) /\ last' = NotConsolidate /\ UNCHANGED threads
    \/ \E mid \in KnownIds : LtmRetrieve(mid) /\ last' = NotConsolidate /\ UNCHANGED threads
    \/ StmClear /\ last' = NotConsolidate /\ UNCHANGED threads
    \/ \E p \in PruneInputs : LtmPrune(p[1], p[2]) /\ last' = NotConsolidate /\ UNCHANGED threads
    \/ Consolidate /\ last' = ConsolidateCall /\ UNCHANGED threads
    \/ AutoMaintain /\ last' = NotConsolidate /\ UNCHANGED threads
    \/ Restart /\ last' = NotConsolidate /\ UNCHANGED threads
    \/ \E d \in TickSteps : Tick(d) /\ UNCHANGED << last, threads >>

SpecTraced == Init /\ [][NextTraced]_vars

\* the runs above, and runs of a system with a larger ring in which more than
\* five items match a query in each tier: these store and let the clock advance
InitQuery ==
    /\ now = 0
    /\ nextRef = 1
    /\ heap = Empty
    /\ items = << >>
    /\ item_map = Empty
    /\ index = Empty
    /\ tag_index = Empty
    /\ type_index = Empty
    /\ disk = Empty
    /\ stored = << >>
    /\ last = NotConsolidate
    /\ threads = NoThreads
    /\ storage = "written"
    /\ \/ /\ max_capacity = Capacity
          /\ \E run \in Runs : consolidation_rules = run.rules /\ workload = run.inputs
       \/ /\ max_capacity = QueryCapacity
          /\ consolidation_rules = DefaultRules
          /\ workload = QueryInputs

NextQuery ==
    \/ max_capacity = Capacity /\ Next
    \/ max_capacity = QueryCapacity /\ \E inp \in workload : StoreUpTo(inp, QueryObjects) /\ UNCHANGED << last, threads >>
    \/ max_capacity = QueryCapacity /\ Tick(HalfHour) /\ UNCHANGED << last, threads >>

SpecQuery == InitQuery /\ [][NextQuery]_vars

\* runs in which writes to the storage path can fail
InitFaulty ==
    /\ now = 0
    /\ nextRef = 1
    /\ heap = Empty
    /\ items = << >>
    /\ item_map = Empty
    /\ index = Empty
    /\ tag_index = Empty
    /\ type_index = Empty
    /\ disk = Empty
    /\ stored = << >>
    /\ last = NotConsolidate
    /\ threads = NoThreads
    /\ max_capacity = Capacity
    /\ storage \in WriteOutcomes
    /\ consolidation_rules = DefaultRules
    /\ workload = {Notable, Ordinary}

NextFaulty ==
    \/ Next
    \/ \E w \in WriteOutcomes : StorageChanges(w) /\ UNCHANGED << last, threads >>

SpecFaulty == InitFaulty /\ [][NextFaulty]_vars

\* runs whose callers store three different contents: store,
\* ShortTermMemory.retrieve, clear and the clock
InitRing ==
    /\ now = 0
    /\ nextRef = 1
    /\ heap = Empty
    /\ items = << >>
    /\ item_map = Empty
    /\ index = Empty
    /\ tag_index = Empty
    /\ type_index = Empty
    /\ disk = Empty
    /\ stored = << >>
    /\ last = NotConsolidate
    /\ threads = NoThreads
    /\ max_capacity = Capacity
    /\ storage = "written"
    /\ consolidation_rules = DefaultRules
    /\ workload = QueryInputs

NextRing ==
    \/ \E inp \in workload : Store(inp) /\ UNCHANGED << last, threads >>
    \/ \E mid \in KnownIds : StmRetrieve(mid) /\ UNCHANGED << last, threads >>
    \/ StmClear /\ UNCHANGED << last, threads >>
    \/ \E d \in TickSteps : Tick(d) /\ UNCHANGED << last, threads >>

SpecRing == InitRing /\ [][NextRing]_vars

\* runs in which the process can crash while it writes a record: store,
\* LongTermMemory.retrieve and the clock, and the crashes
InitCrash ==
    /\ now = 0
    /\ nextRef = 1
    /\ heap = Empty
    /\ items = << >>
    /\ item_map = Empty
    /\ index = Empty
    /\ tag_index = Empty
    /\ type_index = Empty
    /\ disk = Empty
    /\ stored = << >>
    /\ last = NotConsolidate
    /\ threads = NoThreads
    /\ max_capacity = Capacity
    /\ storage = "written"
    /\ consolidation_rules = DefaultRules
    /\ workload = {Notable, Ordinary}

NextCrash ==
    \/ \E inp \in workload : Store(inp) /\ UNCHANGED << last, threads >>
    \/ \E mid \in KnownIds : LtmRetrieve(mid) /\ UNCHANGED << last, threads >>
    \/ \E d \in TickSteps : Tick(d) /\ UNCHANGED << last, threads >>
    \/ \E inp \in workload, w \in CrashPoints : CrashDuringStore(inp, w) /\ UNCHANGED << last, threads >>
    \/ \E mid \in KnownIds, w \in CrashPoints : CrashDuringRetrieve(mid, w) /\ UNCHANGED << last, threads >>

SpecCrash == InitCrash /\ [][NextCrash]_vars

\* startup on a storage path that holds any mix of records: for each of three
\* ids no file, the record of an item, that record after a retrieve, a file
\* that cannot be parsed, or the record with "tags": null
LoadItems ==
    { MemoryItem(MemoryId(inp.content, 0), inp, 0) : inp \in {Notable, Threshold, TwoWords} }

FilesOf(item) ==
    { item, [item EXCEPT !.access_count = 2], Partial, NullTags(item) }

Directories ==
    UNION { { d \in [ { it.memory_id : it \in present } -> UNION { FilesOf(it) : it \in present } ] :
                \A it \in present : d[it.memory_id] \in FilesOf(it) } :
            present \in SUBSET LoadItems }

InitLoad ==
    /\ now = 0
    /\ nextRef = 1
    /\ heap = Empty
    /\ items = << >>
    /\ item_map = Empty
    /\ index = Empty
    /\ tag_index = Empty
    /\ type_index = Empty
    /\ disk \in Directories
    /\ stored = << >>
    /\ last = NotConsolidate
    /\ threads = NoThreads
    /\ max_capacity = Capacity
    /\ storage = "written"
    /\ consolidation_rules = DefaultRules
    /\ workload = {}

NextLoad == Restart /\ UNCHANGED << last, threads >>

SpecLoad == InitLoad /\ [][NextLoad]_vars

\* runs with threads: one thread stores, retrieves by id and lets the clock
\* advance; then two threads call into the memory system at the same time, and
\* each step of the run is one statement of one of them
InitThreads ==
    /\ now = 0
    /\ nextRef = 1
    /\ heap = Empty
    /\ items = << >>
    /\ item_map = Empty
    /\ index = Empty
    /\ tag_index = Empty
    /\ type_index = Empty
    /\ disk = Empty
    /\ stored = << >>
    /\ last = NotConsolidate
    /\ threads = NoThreads
    /\ max_capacity = Capacity
    /\ storage = "written"
    /\ consolidation_rules = DefaultRules
    /\ workload = {Ordinary, OutOfRange}

\* two threads start the calls a and b
Launch(a, b) ==
    /\ threads = NoThreads
    /\ threads' = [t \in ThreadIds |-> IF t = 1 THEN a ELSE IF t = 2 THEN b ELSE Idle]
    /\ UNCHANGED << now, heap, nextRef, items, item_map, index, tag_index, type_index,
                    disk, consolidation_rules, workload, max_capacity, storage, stored, last >>

\* both threads retrieve the id mid, which the tier holds, from the same tier
RetrieveTwice(op, mid) ==
    /\ mid \in (IF op = "stm_retrieve" THEN DOMAIN item_map ELSE DOMAIN index)
    /\ LET r == IF op = "stm_retrieve" THEN item_map[mid] ELSE index[mid]
           th == [Thread(op, "get", mid, NoInput) EXCEPT !.before = heap[r].access_count]
       IN  Launch(th, th)

\* both threads store
StoreTwice(inp1, inp2) ==
    /\ nextRef + 1 <= MaxObjects
    /\ Launch(Thread("store", "append", NoId, inp1), Thread("store", "append", NoId, inp2))

\* one thread stores while the other runs consolidate_memories
StoreAndConsolidate(inp) ==
    /\ nextRef <= MaxObjects
    /\ Launch(Thread("store", "append", NoId, inp), Thread("consolidate", "snapshot", NoId, NoInput))

\* one thread stores while the other runs prune
StoreAndPrune(inp) ==
    /\ nextRef <= MaxObjects
    /\ Launch(Thread("store", "append", NoId, inp), Thread("prune", "scan", NoId, NoInput))

\* thread t runs its next statement
ThreadRuns(t) ==
    /\ ~Ended(threads[t])
    /\ LET res == ThreadStep(State, threads[t], consolidation_rules, now, nextRef)
           ths == [threads EXCEPT ![t] = res.th]
           creates == threads[t].op = "store" /\ threads[t].pc = "append"
           T == res.state
       IN  /\ threads' = ths
           /\ heap' = Restrict(T.heap, DOMAIN T.heap \cap (DOMAIN Live(T) \cup Held(ths)))
           /\ items' = T.items
           /\ item_map' = T.item_map
           /\ index' = T.index
           /\ tag_index' = T.tag_index
           /\ type_index' = T.type_index
           /\ disk' = T.disk
           /\ nextRef' = IF creates THEN nextRef + 1 ELSE nextRef
           /\ stored' = IF creates THEN Append(stored, nextRef) ELSE stored
    /\ UNCHANGED << now, consolidation_rules, workload, max_capacity, storage, last >>

NextThreads ==
    \/ threads = NoThreads /\ \E inp \in workload : StoreUpTo(inp, SetupObjects) /\ UNCHANGED << last, threads >>
    \/ threads = NoThreads /\ Retrieves < SetupRetrieves
         /\ \E mid \in DOMAIN item_map : StmRetrieve(mid) /\ UNCHANGED << last, threads >>
    \/ threads = NoThreads /\ \E d \in TickSteps : Tick(d) /\ UNCHANGED << last, threads >>
    \/ \E op \in {"stm_retrieve", "ltm_retrieve"}, mid \in KnownIds : RetrieveTwice(op, mid)
    \/ \E inp1, inp2 \in workload : StoreTwice(inp1, inp2)
    \/ \E inp \in workload : StoreAndConsolidate(inp)
    \/ \E inp \in workload : StoreAndPrune(inp)
    \/ \E t \in ThreadIds : ThreadRuns(t)

SpecThreads == InitThreads /\ [][NextThreads]_vars

\* LayeredMemorySystem.retrieve(query, search_both): the searches and the
\* merge read the state and assign to no attribute
Retrieve(query, search_both) ==
    /\ RetrieveRaises(State, query, search_both) \/ RetrieveQuery(State, query, search_both) # {}
    /\ UNCHANGED << now, heap, nextRef, items, item_map, index, tag_index, type_index,
                    disk, consolidation_rules, workload, max_capacity, storage, stored >>

\* LayeredMemorySystem.get_memory_status
Status ==
    /\ Len(items) <= max_capacity
    /\ UNCHANGED << now, heap, nextRef, items, item_map, index, tag_index, type_index,
                    disk, consolidation_rules, workload, max_capacity, storage, stored >>

\* runs of a caller that uses the orchestrator only, with the default rules:
\* store, retrieve(query), consolidate_memories, auto_maintain,
\* get_memory_status, and the clock
InitCollaborator == Init /\ consolidation_rules = DefaultRules

NextCollaborator ==
    \/ \E inp \in workload : Store(inp) /\ UNCHANGED << last, threads >>
    \/ \E query \in {"x", "y", "z"}, search_both \in BOOLEAN :
          Retrieve(query, search_both) /\ UNCHANGED << last, threads >>
    \/ Consolidate /\ UNCHANGED << last, threads >>
    \/ AutoMaintain /\ UNCHANGED << last, threads >>
    \/ Status /\ UNCHANGED << last, threads >>
    \/ \E d \in TickSteps : Tick(d) /\ UNCHANGED << last, threads >>

SpecCollaborator == InitCollaborator /\ [][NextCollaborator]_vars

\* runs of a caller that stores an item whose content is blank: store,
\* retrieve(query), consolidate_memories and the clock
InitBlank ==
    /\ now = 0
    /\ nextRef = 1
    /\ heap = Empty
    /\ items = << >>
    /\ item_map = Empty
    /\ index = Empty
    /\ tag_index = Empty
    /\ type_index = Empty
    /\ disk = Empty
    /\ stored = << >>
    /\ last = NotConsolidate
    /\ threads = NoThreads
    /\ max_capacity = Capacity
    /\ storage = "written"
    /\ consolidation_rules = DefaultRules
    /\ workload = {Blank, Ordinary}

NextBlank ==
    \/ \E inp \in workload : Store(inp) /\ UNCHANGED << last, threads >>
    \/ \E mid \in KnownIds : StmRetrieve(mid) /\ UNCHANGED << last, threads >>
    \/ \E query \in BlankQueries, search_both \in BOOLEAN :
          Retrieve(query, search_both) /\ UNCHANGED << last, threads >>
    \/ Consolidate /\ UNCHANGED << last, threads >>
    \/ \E d \in TickSteps : Tick(d) /\ UNCHANGED << last, threads >>

SpecBlank == InitBlank /\ [][NextBlank]_vars

\* --------------------------------------------------------------- claims
FromInput(item, inp) ==
    /\ item.content = inp.content
    /\ item.memory_type = inp.memory_type
    /\ item.tags = inp.tags

\* C1: in every reachable state the ring buffer holds at most max_capacity items.
C1_RingWithinCapacity == Len(items) <= max_capacity

\* a store into a full ring buffer has happened
C1_Witness == Len(items) = max_capacity /\ Len(stored) > max_capacity

\* C2: after n stores since creation or the last clear(), the ring buffer is
\* exactly the last min(n, max_capacity) stored items in store order, whatever
\* their importance.
C2_RingIsLastStored ==
    LET n == Len(stored)
        k == Min(n, max_capacity)
    IN  items = SubSeq(stored, n - k + 1, n)

\* the oldest item was dropped although it is more important than one that stayed
C2_Witness ==
    /\ Len(stored) = max_capacity + 1
    /\ stored[1] \in DOMAIN heap
    /\ \E i \in 1..Len(items) : FloatLess(heap[items[i]].importance, heap[stored[1]].importance)

\* the state after each operation, applied to the current state
AfterStore(inp) == StoreItem(State, inp, now, nextRef)
AfterStmRetrieve(mid) == StmRetrieveItem(State, mid)
AfterLtmRetrieve(mid) == LtmRetrieveItem(State, mid)
AfterConsolidate == ConsolidateMemories(State, consolidation_rules, now)
AfterPrune(min_importance, max_age_days) == Prune(State, now, min_importance, max_age_days)

\* C3: the orchestrator's store always appends the created item to the ring
\* buffer, and on return the item's id is in the primary map if and only if
\* force_long_term is set or the given importance is at least 0.8.
C3_StoreMirrorsIffImportant ==
    \A inp \in StoreInputs :
        LET T == AfterStore(inp) IN
        /\ Len(T.items) > 0
        /\ T.items[Len(T.items)] = nextRef
        /\ MemoryId(inp.content, now) \in DOMAIN T.index
              <=> (inp.force_long_term \/ FloatGeq(inp.importance, Float(80)))

\* C4 as stated: a consolidate() that directly follows a consolidate() (no
\* other operation in between) never increases the primary map's item count
\* and reports consolidated = 0.
C4_SecondConsolidateAddsNothing ==
    last.op = "consolidate" =>
        /\ Cardinality(DOMAIN AfterConsolidate.state.index) <= Cardinality(DOMAIN index)
        /\ AfterConsolidate.consolidated = 0

\* an item satisfies some rule at clock reading t
Qualifies(item, rules, t) ==
    \E k \in 1..Len(rules) :
        /\ item.access_count >= rules[k].min_access_count
        /\ FloatGeq(item.importance, rules[k].min_importance)
        /\ t - item.created_at >= rules[k].min_age_minutes
        /\ (rules[k].required_tags = {} \/ rules[k].required_tags \cap item.tags # {})

\* C4 amended: a consolidate() that directly follows a consolidate() promotes
\* only items that satisfied no rule at the clock reading of the first call
\* (their age reached a rule's minimum in between) and reports exactly the
\* number of ids it adds; with the clock reading unchanged it adds nothing and
\* reports 0.
C4_SecondConsolidateAddsOnlyNewlyAged ==
    last.op = "consolidate" =>
        LET c == AfterConsolidate
            added == DOMAIN c.state.index \ DOMAIN index
        IN  /\ \A mid \in added :
                  ~Qualifies(heap[c.state.index[mid]], consolidation_rules, last.at)
            /\ c.consolidated = Cardinality(added)
            /\ (last.at = now => added = {} /\ c.consolidated = 0)

\* two calls in a row have happened with the clock advanced in between, and
\* the second call promoted an item
C4_Witness ==
    /\ last.op = "consolidate"
    /\ last.again
    /\ last.consolidated > 0

\* C5: every id in a tag or kind bucket is a key of the primary map, and every
\* item of the primary map has its id in the bucket of its kind and of each of
\* its tags.
C5_IndicesConsistent ==
    /\ \A t \in DOMAIN tag_index : tag_index[t] \subseteq DOMAIN index
    /\ \A k \in DOMAIN type_index : type_index[k] \subseteq DOMAIN index
    /\ \A mid \in DOMAIN index :
          LET item == heap[index[mid]] IN
          /\ mid \in Bucket(type_index, item.memory_type)
          /\ \A t \in item.tags : mid \in Bucket(tag_index, t)

\* C6: the working-memory copy and the persistent copy of a promoted item are
\* independent: ShortTermMemory.retrieve(id) leaves access_count and importance
\* of the persistent item of that id unchanged, and LongTermMemory.retrieve(id)
\* leaves the working-memory items unchanged.
C6_CopiesIndependent ==
    /\ \A mid \in DOMAIN item_map \cap DOMAIN index :
          LET T == AfterStmRetrieve(mid) IN
          /\ T.heap[T.index[mid]].access_count = heap[index[mid]].access_count
          /\ T.heap[T.index[mid]].importance = heap[index[mid]].importance
    /\ \A mid \in DOMAIN index :
          LET T == AfterLtmRetrieve(mid) IN
          \A r \in Range(items) \cup Range(item_map) : T.heap[r] = heap[r]

\* C7: consolidate() leaves the ring buffer, the side table and the items they
\* hold as they were, and an item promoted by consolidate() or mirrored by
\* store is in the ring buffer afterwards.
C7_PromotionKeepsWorkingMemory ==
    /\ LET T == AfterConsolidate.state IN
        /\ T.items = items
        /\ T.item_map = item_map
        /\ \A r \in Range(items) \cup Range(item_map) : T.heap[r] = heap[r]
        /\ \A mid \in DOMAIN T.index \ DOMAIN index :
              \E i \in 1..Len(T.items) : T.items[i] = T.index[mid]
    /\ \A inp \in StoreInputs :
          (inp.force_long_term \/ FloatGeq(inp.importance, Float(80))) =>
              LET T == AfterStore(inp) IN
              /\ T.index[MemoryId(inp.content, now)] = nextRef
              /\ \E i \in 1..Len(T.items) : T.items[i] = nextRef

\* an item that only consolidation can promote is in the primary map and still
\* in the ring buffer and the side table
C7_Witness ==
    \E i \in 1..Len(items) :
        LET item == heap[items[i]] IN
        /\ FromInput(item, Ordinary)
        /\ item.memory_id \in DOMAIN index
        /\ index[item.memory_id] = items[i]
        /\ item.memory_id \in DOMAIN item_map
        /\ item_map[item.memory_id] = items[i]

\* C8 as stated: ShortTermMemory.retrieve(id) on a present id adds exactly 1
\* to access_count and sets importance to min(1.0, importance + 0.05), so that
\* the importance is at most 1.0 afterwards and, from importance 0.90, one
\* call gives 0.95 and a call on that result gives 1.0.
C8_RetrieveGivesDecimal ==
    \A mid \in DOMAIN item_map :
        LET r == item_map[mid]
            T == AfterStmRetrieve(mid)
        IN  /\ T.heap[r].access_count = heap[r].access_count + 1
            /\ FloatGeq(Float(100), T.heap[r].importance)
            /\ (heap[r].importance = Float(90) => T.heap[r].importance = Float(95))
            /\ (heap[r].importance = Float(95) => T.heap[r].importance = Float(100))

\* C8 amended: ShortTermMemory.retrieve(id) on a present id adds exactly 1 to
\* access_count and sets importance to min(1.0, importance + 0.05) with the
\* sum rounded to the nearest float: the importance is at most 1.0 afterwards,
\* it stands for the decimal min(1.00, importance + 0.05) and, below 1.0, is
\* within half a float spacing of the exact sum; from 0.90 one call gives the
\* float one spacing above 0.95 (0.9500000000000001, not 0.95), and a call on
\* that float or on 1.0 gives exactly 1.0.
C8_RetrieveBumpsAndClamps ==
    \A mid \in DOMAIN item_map :
        LET r == item_map[mid]
            old == heap[r].importance
            new == AfterStmRetrieve(mid).heap[r].importance
            sum == old.excess + Float(5).excess
            above95 == [hundredths |-> 95, excess |-> Float(95).excess + 100 * Ulp(95, 0)]
        IN  /\ AfterStmRetrieve(mid).heap[r].access_count = heap[r].access_count + 1
            /\ FloatGeq(Float(100), new)
            /\ new.hundredths = Min(100, old.hundredths + 5)
            /\ \/ new = Float(100)
               \/ /\ 2 * (new.excess - sum) <= 100 * Ulp(new.hundredths, sum)
                  /\ 2 * (sum - new.excess) <= 100 * Ulp(new.hundredths, sum)
            /\ (old = Float(90) => new = above95 /\ new # Float(95))
            /\ (old \in {above95, Float(100)} => new = Float(100))

\* the item stored with importance 0.90 has been retrieved three times from
\* working memory (its record was never rewritten by a long-term retrieve) and
\* its importance is exactly 1.0
C8_Witness ==
    \E r \in DOMAIN heap :
        /\ FromInput(heap[r], Notable)
        /\ heap[r].access_count = 4
        /\ heap[r].importance = Float(100)
        /\ heap[r].memory_id \in DOMAIN disk
        /\ disk[heap[r].memory_id].access_count = 1
        /\ heap[r].memory_id \in DOMAIN index
        /\ index[heap[r].memory_id] = r

\* C9: consolidate() promotes a ring-buffer item if and only if, when the loop
\* reaches it, its id is not in the primary map and some rule of the list is
\* satisfied (access count, importance, age and, when required tags are set,
\* one of them on the item); a rule that fails on its tags only falls through
\* to the next rule.
C9_ConsolidatePromotesIffQualified ==
    LET T == AfterConsolidate.state IN
    \A i \in 1..Len(items) :
        LET r == items[i]
            mid == heap[r].memory_id
            promoted == mid \in DOMAIN T.index \ DOMAIN index /\ T.index[mid] = r
            earlier == \E j \in 1..(i - 1) :
                          /\ heap[items[j]].memory_id = mid
                          /\ Qualifies(heap[items[j]], consolidation_rules, now)
        IN  promoted <=> /\ mid \notin DOMAIN index
                         /\ ~earlier
                         /\ Qualifies(heap[r], consolidation_rules, now)

\* under the rule list whose first rule requires tag "a", an item tagged only
\* "b" has been promoted: it failed the first rule on its tags and the second
\* rule promoted it
C9_Witness ==
    /\ consolidation_rules = TaggedRules
    /\ \E i \in 1..Len(items) :
          LET item == heap[items[i]] IN
          /\ FromInput(item, Ordinary)
          /\ item.access_count >= 3
          /\ FloatGeq(item.importance, Float(70))
          /\ item.memory_id \in DOMAIN index
          /\ index[item.memory_id] = items[i]

\* C10: prune(min_importance, max_age_days) removes every item whose age
\* exceeds max_age_days, whatever its importance and decayed importance.
C10_PruneRemovesOld ==
    \A p \in PruneInputs :
        LET T == AfterPrune(p[1], p[2]) IN
        \A mid \in DOMAIN index :
            (now - heap[index[mid]].created_at > p[2] * 1440) =>
                /\ mid \notin DOMAIN T.index
                /\ mid \notin DOMAIN T.disk

\* the only item ever stored in this process (importance 0.8, never below
\* either decay threshold) is 400 days old and gone from the primary map and
\* the directory: its age alone removed it
C10_Witness ==
    /\ stored = << 1 >>
    /\ nextRef = 2
    /\ items = << 1 >>
    /\ FromInput(heap[1], Threshold)
    /\ now - heap[1].created_at > 365 * 1440
    /\ heap[1].memory_id \notin DOMAIN index
    /\ heap[1].memory_id \notin DOMAIN disk

\* the arguments given to LongTermMemory.search
SearchTags == { {"a"}, {"b"}, {"a", "b"} }
SearchKinds == { "episodic", "semantic", "procedural" }
SearchMinImportances == { Float(0), Float(80) }

\* C11: LongTermMemory.search with a tags filter (no query, default top_k)
\* returns exactly the items of the primary map that carry at least one of the
\* requested tags, are of the requested kind when one is given, and have
\* importance >= min_importance; it never returns an item that carries none of
\* the requested tags.
C11_TagSearchIsUnionThenAnd ==
    \A tags \in SearchTags, min_importance \in SearchMinImportances :
      \A kind \in {""} \cup DOMAIN type_index :
        \A res \in LtmSearchNoQuery(State, tags, kind, min_importance, TOP_K_DEFAULT) :
            Range(res) =
                { index[mid] : mid \in
                    { m \in DOMAIN index :
                        /\ heap[index[m]].tags \cap tags # {}
                        /\ (kind = "" \/ heap[index[m]].memory_type = kind)
                        /\ FloatGeq(heap[index[m]].importance, min_importance) } }

\* C12: LongTermMemory.search with a kind given returns only items of that
\* kind, for every kind, also one that no stored item has (the result is then
\* empty).
C12_KindSearchReturnsOnlyKind ==
    \A kind \in SearchKinds :
        \A res \in LtmSearchNoQuery(State, {}, kind, Float(0), TOP_K_DEFAULT) :
            \A i \in 1..Len(res) : heap[res[i]].memory_type = kind

\* the item r of state T, written by LongTermMemory.store, is reproduced by a
\* restart on the same storage path: same content, tags and importance, and its
\* id is in the same tag and type buckets as before the restart
ReloadsSame(T, r) ==
    LET mid == T.heap[r].memory_id
        R == Construct(T.disk)
    IN  /\ mid \in DOMAIN R.index
        /\ R.heap[R.index[mid]].content = T.heap[r].content
        /\ R.heap[R.index[mid]].tags = T.heap[r].tags
        /\ R.heap[R.index[mid]].importance = T.heap[r].importance
        /\ \A t \in DOMAIN T.tag_index \cup DOMAIN R.tag_index :
              mid \in Bucket(T.tag_index, t) <=> mid \in Bucket(R.tag_index, t)
        /\ \A k \in DOMAIN T.type_index \cup DOMAIN R.type_index :
              mid \in Bucket(T.type_index, k) <=> mid \in Bucket(R.type_index, k)

\* C13: after LongTermMemory.store has written an item (mirrored by store or
\* promoted by consolidate_memories), constructing the system again on the
\* same storage path gives a primary map that holds the id with the same
\* content, tags and importance, and the id is in the same tag and type
\* buckets as before the restart.
C13_RoundTripAcrossRestart ==
    /\ \A inp \in StoreInputs :
          MirrorsOnStore(inp) => ReloadsSame(AfterStore(inp), nextRef)
    /\ LET T == AfterConsolidate.state IN
          \A mid \in DOMAIN T.index \ DOMAIN index : ReloadsSame(T, T.index[mid])

\* C14: ids are unique: no two items of the ring buffer have the same id, and
\* the id that a store gives to its new item is not the id of an entry of the
\* side table or of the primary map (so a store overwrites no entry of another
\* item), also when the content and the clock reading are those of an earlier
\* store.
C14_IdsAreUnique ==
    /\ \A i, j \in 1..Len(items) :
          i # j => heap[items[i]].memory_id # heap[items[j]].memory_id
    /\ \A inp \in StoreInputs :
          MemoryId(inp.content, now) \notin DOMAIN item_map \cup DOMAIN index

AfterStmClear == StmClearAll(State)

\* C15: the set of ids of the primary map shrinks only in prune (called
\* directly or by auto_maintain): after store, ShortTermMemory.retrieve,
\* LongTermMemory.retrieve, ShortTermMemory.clear and consolidate_memories
\* every id of the primary map is still there.
C15_OnlyPruneRemovesIds ==
    /\ \A inp \in StoreInputs : DOMAIN index \subseteq DOMAIN AfterStore(inp).index
    /\ \A mid \in KnownIds :
          /\ DOMAIN index \subseteq DOMAIN AfterStmRetrieve(mid).index
          /\ DOMAIN index \subseteq DOMAIN AfterLtmRetrieve(mid).index
    /\ DOMAIN index \subseteq DOMAIN AfterStmClear.index
    /\ DOMAIN index \subseteq DOMAIN AfterConsolidate.state.index

\* the primary map still holds an item that a prune with the arguments of
\* auto_maintain would remove (older than 365 days), after a store that
\* happened at the current clock reading
C15_Witness ==
    /\ \E mid \in DOMAIN index :
          ShouldRemove(heap[index[mid]], now, MAINTAIN_MIN_IMPORTANCE, MAINTAIN_MAX_AGE_DAYS)
    /\ \E i \in 1..Len(items) : heap[items[i]].created_at = now /\ now > 0

AfterAutoMaintain == AutoMaintainAt(State, consolidation_rules, now)

\* the objects that exist in the current state have the same importance and
\* access_count in state T
SameCounters(T) ==
    \A r \in DOMAIN heap :
        /\ r \in DOMAIN T.heap
        /\ T.heap[r].importance = heap[r].importance
        /\ T.heap[r].access_count = heap[r].access_count

\* C16: importance and access_count of an existing item change only in
\* ShortTermMemory.retrieve and LongTermMemory.retrieve: the orchestrator's
\* store, consolidate_memories, auto_maintain and clear leave them unchanged
\* for every item that exists when the operation starts (the searches,
\* retrieve(query) and the status methods assign nothing).
C16_OnlyRetrieveChangesCounters ==
    /\ \A inp \in StoreInputs : SameCounters(AfterStore(inp))
    /\ SameCounters(AfterConsolidate.state)
    /\ SameCounters(AfterAutoMaintain)
    /\ SameCounters(AfterStmClear)
    /\ \A p \in PruneInputs : SameCounters(AfterPrune(p[1], p[2]))

\* an item retrieved once (access_count 2, importance 0.79 + 0.05) has been
\* promoted by consolidation and still has these values, in the primary map
\* and on disk
C16_Witness ==
    \E mid \in DOMAIN index :
        LET item == heap[index[mid]] IN
        /\ FromInput(item, Ordinary)
        /\ item.access_count = 2
        /\ item.importance = FloatAdd(Float(79), Float(BUMP))
        /\ mid \in DOMAIN disk
        /\ disk[mid].access_count = 2

\* the queries given to retrieve
Queries == { "x", "X", "y", "", "z" }

Ids(q) == { heap[q[i]].memory_id : i \in 1..Len(q) }

\* C17: the list returned by LayeredMemorySystem.retrieve(query, search_both)
\* holds no two items of the same id; its ids are those of the two search
\* results, and an id that ShortTermMemory.search returned is represented by
\* the first item of that id in its result; the list is in descending order of
\* (importance, access_count); it is made of at most 5 items of the
\* ShortTermMemory.search result and at most 5 of the LongTermMemory.search
\* result; without search_both it holds items of the short-term result only.
C17_RetrieveMergesBothTiers ==
    \A query \in Queries, search_both \in BOOLEAN :
        \A out \in RetrieveQuery(State, query, search_both) :
            LET res == out.result IN
            /\ \A i, j \in 1..Len(res) :
                  i # j => heap[res[i]].memory_id # heap[res[j]].memory_id
            /\ Ids(res) = Ids(out.stm) \cup Ids(out.ltm)
            /\ \A i \in 1..Len(res) :
                  heap[res[i]].memory_id \in Ids(out.stm) =>
                      \E k \in 1..Len(out.stm) :
                          /\ out.stm[k] = res[i]
                          /\ \A m \in 1..(k - 1) :
                                heap[out.stm[m]].memory_id # heap[res[i]].memory_id
            /\ \A i, j \in 1..Len(res) : i < j => ~KeyAbove(heap[res[j]], heap[res[i]])
            /\ Len(out.stm) <= 5
            /\ Len(out.ltm) <= 5
            /\ Range(res) \subseteq Range(out.stm) \cup Range(out.ltm)
            /\ \A i \in 1..Len(out.stm) : out.stm[i] \in Range(items)
            /\ \A i \in 1..Len(out.ltm) : out.ltm[i] \in Range(index)
            /\ (~search_both => out.ltm = << >>)

\* both searches found more than five matching items and returned five, an id
\* is in both results, another in the long-term result only, and the merged
\* list holds items of different keys
C17_Witness ==
    \E out \in RetrieveQuery(State, "x", TRUE) :
        /\ Len(items) > TOP_K_RETRIEVE /\ Len(out.stm) = TOP_K_RETRIEVE
        /\ Cardinality(DOMAIN index) > TOP_K_RETRIEVE /\ Len(out.ltm) = TOP_K_RETRIEVE
        /\ Ids(out.stm) \cap Ids(out.ltm) # {}
        /\ Ids(out.ltm) \ Ids(out.stm) # {}
        /\ Len(out.result) = TOP_K_RETRIEVE + 1
        /\ KeyAbove(heap[out.result[1]], heap[out.result[Len(out.result)]])
\* the ids that prune(0.1, 365) removes from the primary map of state C
MaintainRemoves(C) ==
    { mid \in DOMAIN C.index :
        ShouldRemove(C.heap[C.index[mid]], now, MAINTAIN_MIN_IMPORTANCE, MAINTAIN_MAX_AGE_DAYS) }

\* C18: the state after maintain() is the state after consolidate() with the
\* items that prune(0.1, 365) removes taken out of it: the ring buffer, the side
\* table and the objects are those that consolidate() leaves; the primary map
\* and the durable records are those of consolidate() without the ids whose
\* item, promoted ones included, is older than 365 days or has decayed below
\* 0.1; each such id is taken out of the buckets of its item's tags and kind;
\* no item that prune(0.1, 365) would remove is left.
C18_MaintainIsConsolidateThenPrune ==
    LET C == AfterConsolidate.state
        T == AfterAutoMaintain
        removed == MaintainRemoves(C)
    IN  /\ T.heap = C.heap
        /\ T.items = C.items
        /\ T.item_map = C.item_map
        /\ T.index = Restrict(C.index, DOMAIN C.index \ removed)
        /\ T.disk = Restrict(C.disk, DOMAIN C.disk \ removed)
        /\ DOMAIN T.tag_index = DOMAIN C.tag_index
        /\ \A tag \in DOMAIN C.tag_index :
              T.tag_index[tag] =
                  C.tag_index[tag] \ { mid \in removed : tag \in C.heap[C.index[mid]].tags }
        /\ DOMAIN T.type_index = DOMAIN C.type_index
        /\ \A kind \in DOMAIN C.type_index :
              T.type_index[kind] =
                  C.type_index[kind] \ { mid \in removed : C.heap[C.index[mid]].memory_type = kind }
        /\ MaintainRemoves(T) = {}

\* maintain() promotes an item of the ring buffer and prunes it in the same
\* call (it satisfies a rule and is older than 365 days), and leaves an item
\* in the primary map
C18_Witness ==
    /\ MaintainRemoves(AfterConsolidate.state) \ DOMAIN index # {}
    /\ DOMAIN AfterAutoMaintain.index # {}
\* C19: ShortTermMemory.retrieve of an id that the side table does not hold
\* and LongTermMemory.retrieve of an id that the primary map does not hold
\* return the absent result and leave the objects, the ring buffer, the side
\* table, the primary map, the indices and the durable records as they were.
C19_RetrieveOfUnknownIdChangesNothing ==
    \A mid \in KnownIds :
        /\ mid \notin DOMAIN item_map =>
              /\ StmRetrieveResult(State, mid) = None
              /\ AfterStmRetrieve(mid) = State
        /\ mid \notin DOMAIN index =>
              /\ LtmRetrieveResult(State, mid) = None
              /\ AfterLtmRetrieve(mid) = State

\* an id is held by the side table only and another by the primary map only,
\* and the item in the ring buffer has been retrieved before
C19_Witness ==
    /\ \E mid \in DOMAIN item_map \ DOMAIN index : heap[item_map[mid]].access_count > 1
    /\ DOMAIN index \ DOMAIN item_map # {}
\* the durable records of state T are those of the current state after a
\* failed write of the record mid: untouched, or with a file that cannot be read
FailedWriteOf(T, mid) ==
    \/ storage = "refused" /\ T.disk = disk
    \/ storage = "partial" /\ T.disk = Put(disk, mid, Partial)

\* C20: while writes to the storage path fail, LongTermMemory.store of an item
\* (called by the orchestrator's store or by consolidate_memories) still puts
\* the item in the primary map and its id in the buckets of its tags and of
\* its kind, and a later retrieve or search of the same process finds it;
\* LongTermMemory.retrieve still returns the item and counts the access; the
\* durable record is left as it was or unreadable.
C20_WriteFailureIsNotFatal ==
    storage # "written" =>
        /\ \A r \in Range(items) :
              LET T == LtmStore(State, r)
                  item == heap[r]
                  mid == item.memory_id
              IN  /\ T.index = Put(index, mid, r)
                  /\ \A tag \in item.tags : mid \in Bucket(T.tag_index, tag)
                  /\ mid \in Bucket(T.type_index, item.memory_type)
                  /\ T.heap = heap /\ T.items = items /\ T.item_map = item_map
                  /\ FailedWriteOf(T, mid)
                  /\ LtmRetrieveResult(T, mid) = r
                  /\ r \in Filtered(T, item.tags, item.memory_type, Float(0))
        /\ \A inp \in workload :
              MirrorsOnStore(inp) =>
                  LET T == AfterStore(inp)
                      mid == MemoryId(inp.content, now)
                  IN  /\ T.index = Put(index, mid, nextRef)
                      /\ \A tag \in inp.tags : mid \in Bucket(T.tag_index, tag)
                      /\ mid \in Bucket(T.type_index, inp.memory_type)
                      /\ FailedWriteOf(T, mid)
        /\ \A mid \in DOMAIN index :
              LET T == AfterLtmRetrieve(mid)
                  r == index[mid]
              IN  /\ LtmRetrieveResult(State, mid) = r
                  /\ T.heap = [heap EXCEPT ![r].access_count = @ + 1]
                  /\ T.index = index
                  /\ T.tag_index = tag_index
                  /\ T.type_index = type_index
                  /\ T.items = items /\ T.item_map = item_map
                  /\ FailedWriteOf(T, heap[r].memory_id)

\* writes fail; the primary map holds an item that has no durable record, and
\* an item whose durable record is unreadable or older than the item
C20_Witness ==
    /\ storage # "written"
    /\ \E mid \in DOMAIN index : mid \notin DOMAIN disk
    /\ \E mid \in DOMAIN index :
          /\ mid \in DOMAIN disk
          /\ \/ disk[mid] = Partial
             \/ disk[mid].access_count < heap[index[mid]].access_count
    /\ items # << >>
\* processing the record raises no exception in _load_memories
Loads(record) == WellFormed(record) /\ TagsIterable(record)

\* C21: constructing the system on a storage path loads every well-formed
\* record into the primary map, the buckets of its tags and the bucket of its
\* kind, and creates no entry, in the primary map or in any bucket, for a
\* record that failed to load.
C21_LoadSkipsBadRecords ==
    LET T == Construct(disk) IN
    \A f \in DOMAIN disk :
        IF Loads(disk[f])
        THEN /\ f \in DOMAIN T.index
             /\ T.heap[T.index[f]] = disk[f]
             /\ \A tag \in disk[f].tags : f \in Bucket(T.tag_index, tag)
             /\ f \in Bucket(T.type_index, disk[f].memory_type)
        ELSE /\ f \notin DOMAIN T.index
             /\ \A tag \in DOMAIN T.tag_index : f \notin T.tag_index[tag]
             /\ \A kind \in DOMAIN T.type_index : f \notin T.type_index[kind]

\* C22: whatever the point at which the process crashes while it writes a
\* record, the storage path afterwards holds for every id a complete record,
\* never a truncated or corrupt one.
C22_WritesAreAtomic == \A f \in DOMAIN disk : WellFormed(disk[f])

\* C27: prune(min_importance, max_age_days) removes an item of the primary map
\* if and only if its decayed importance is below min_importance or its age
\* exceeds max_age_days; after it the id of a removed item is in no tag
\* bucket, in no kind bucket and has no durable record; every other item, its
\* buckets and its record are as before; the number returned is the number
\* of items removed.
C27_PruneRemovesExactlyTheDecayedAndOld ==
    \A p \in PruneInputs :
        LET T == AfterPrune(p[1], p[2])
            removed == DOMAIN index \ DOMAIN T.index
            kept == DOMAIN index \ removed
        IN  /\ DOMAIN T.index \subseteq DOMAIN index
            /\ \A mid \in DOMAIN index :
                  mid \in removed <=> \/ DecayedBelow(heap[index[mid]], now, p[1])
                                       \/ TooOld(heap[index[mid]], now, p[2])
            /\ \A mid \in removed :
                  /\ \A tag \in DOMAIN T.tag_index : mid \notin T.tag_index[tag]
                  /\ \A kind \in DOMAIN T.type_index : mid \notin T.type_index[kind]
                  /\ mid \notin DOMAIN T.disk
            /\ \A mid \in kept :
                  /\ T.index[mid] = index[mid]
                  /\ T.heap[T.index[mid]] = heap[index[mid]]
                  /\ \A tag \in DOMAIN tag_index : mid \in T.tag_index[tag] <=> mid \in tag_index[tag]
                  /\ \A kind \in DOMAIN type_index :
                        mid \in T.type_index[kind] <=> mid \in type_index[kind]
                  /\ mid \in DOMAIN disk => mid \in DOMAIN T.disk /\ T.disk[mid] = disk[mid]
            /\ T.items = items /\ T.item_map = item_map
            /\ PruneResult(State, now, p[1], p[2]) = Cardinality(removed)

\* the age of the side-table entry mid of state T exceeds retention_minutes
TooOldToKeep(T, mid) == now - T.heap[T.item_map[mid]].created_at > retention_minutes

\* C28: after a store the side table is the side table before it, with the new
\* item under its id, without exactly the entries whose age exceeds
\* retention_minutes, so no entry is older than that; the ring buffer is the
\* old one with the new item appended (the oldest item dropped when it was
\* full), expired items included; ShortTermMemory.retrieve,
\* LongTermMemory.retrieve and consolidate_memories leave the side table as it
\* is, expired entries included.
C28_SweepRunsOnStoreOnly ==
    /\ \A inp \in StoreInputs :
          LET T == AfterStore(inp)
              mid == MemoryId(inp.content, now)
              before == [State EXCEPT !.heap = T.heap, !.item_map = Put(item_map, mid, nextRef)]
              n == Len(items)
          IN  /\ DOMAIN T.item_map = { m \in DOMAIN before.item_map : ~TooOldToKeep(before, m) }
              /\ \A m \in DOMAIN T.item_map : T.item_map[m] = before.item_map[m]
              /\ \A m \in DOMAIN T.item_map : ~TooOldToKeep(T, m)
              /\ T.items = IF max_capacity = 0 THEN << >>
                            ELSE IF n >= max_capacity
                            THEN Append(SubSeq(items, n - max_capacity + 2, n), nextRef)
                            ELSE Append(items, nextRef)
    /\ \A mid \in KnownIds :
          /\ AfterStmRetrieve(mid).item_map = item_map
          /\ AfterLtmRetrieve(mid).item_map = item_map
    /\ AfterConsolidate.state.item_map = item_map

\* a store has swept the entry of an item older than retention_minutes, which
\* is still in the ring buffer, and has put the new item in both
C28_Witness ==
    /\ \E i \in 1..Len(items) :
          /\ now - heap[items[i]].created_at > retention_minutes
          /\ heap[items[i]].memory_id \notin DOMAIN item_map
    /\ \E i \in 1..Len(items) :
          /\ heap[items[i]].created_at = now
          /\ heap[items[i]].memory_id \in DOMAIN item_map

\* in state T the object r is not in the ring buffer, yet retrieve of its id
\* returns it and counts the access
EvictedButRetrievable(T, r) ==
    LET mid == T.heap[r].memory_id IN
    /\ r \notin Range(T.items)
    /\ StmRetrieveResult(T, mid) = r
    /\ StmRetrieveItem(T, mid).heap[r].access_count = T.heap[r].access_count + 1

\* in state T the object r is in the ring buffer, yet retrieve of its id
\* returns the absent result
InRingButAbsent(T, r) ==
    /\ r \in Range(T.items)
    /\ StmRetrieveResult(T, T.heap[r].memory_id) = None

\* C29: the ring buffer and the side table diverge in both directions.  A
\* store into a full ring drops the oldest item; when that item's entry is not
\* expired (and its id is not the new item's) retrieve of its id still returns
\* it and bumps it.  A store sweeps the entry of every item older than
\* retention_minutes; such an item that stays in the ring is still there for
\* get_all, search and consolidate_memories while retrieve of its id returns
\* the absent result.
C29_RingAndSideTableDiverge ==
    \A inp \in StoreInputs :
        LET T == AfterStore(inp)
            n == Len(items)
        IN  /\ (n >= max_capacity /\ n > 0) =>
                  LET r == items[1]
                      mid == heap[r].memory_id
                  IN  ( /\ r \notin Range(Tail(items))
                        /\ mid \in DOMAIN item_map
                        /\ item_map[mid] = r
                        /\ mid # MemoryId(inp.content, now)
                        /\ now - heap[r].created_at <= retention_minutes )
                      => EvictedButRetrievable(T, r)
            /\ \A i \in 1..n :
                  ( /\ i > 1 \/ n < max_capacity
                    /\ now - heap[items[i]].created_at > retention_minutes
                    /\ heap[items[i]].memory_id \in DOMAIN item_map =>
                          item_map[heap[items[i]].memory_id] = items[i] )
                  => InRingButAbsent(T, items[i])

\* the oldest of three items has left the ring buffer and retrieve of its id
\* still returns it; the clock has passed the window, and one more store leaves
\* an item in the ring buffer whose id retrieve no longer finds
C29_Witness ==
    /\ \E r \in DOMAIN heap : EvictedButRetrievable(State, r)
    /\ \E inp \in workload :
          \E r \in Range(items) : InRingButAbsent(AfterStore(inp), r)
\* what LongTermMemory.retrieve of a present id does to the item and to the
\* indices: one more access, the same importance, tags and kind, the same
\* primary map, tag index and kind index
RetrieveCountsOnce(T, mid) ==
    LET r == index[mid] IN
    /\ T.heap[r].access_count = heap[r].access_count + 1
    /\ T.heap[r].importance = heap[r].importance
    /\ T.heap[r].tags = heap[r].tags
    /\ T.heap[r].memory_type = heap[r].memory_type
    /\ T.index = index
    /\ T.tag_index = tag_index
    /\ T.type_index = type_index

\* the record of mid in the directory of T carries the access_count of the
\* object in memory
RecordIsCurrent(T, mid) ==
    /\ mid \in DOMAIN T.disk
    /\ WellFormed(T.disk[mid])
    /\ T.disk[mid].access_count = T.heap[T.index[mid]].access_count

\* C30 as stated: LongTermMemory.retrieve of a present id increments
\* access_count by exactly 1, leaves importance, tags, kind and both indices
\* unchanged, and when it returns the record's access_count equals the
\* access_count in memory.
C30_RetrieveRewritesRecord ==
    \A mid \in DOMAIN index :
        LET T == AfterLtmRetrieve(mid) IN
        /\ RetrieveCountsOnce(T, mid)
        /\ RecordIsCurrent(T, mid)

\* C30, amended: LongTermMemory.retrieve of a present id increments
\* access_count by exactly 1 and leaves importance, tags, kind and both indices
\* unchanged; the record's access_count equals the access_count in memory when
\* the write succeeds.  When the write is refused the directory is what it
\* was, when it fails after the file was opened the record is cut off, and the
\* call returns the item in both cases.
C30_RetrieveRewritesRecordWhenWritten ==
    \A mid \in DOMAIN index :
        LET T == AfterLtmRetrieve(mid) IN
        /\ RetrieveCountsOnce(T, mid)
        /\ LtmRetrieveResult(State, mid) = index[mid]
        /\ storage = "written" => RecordIsCurrent(T, mid) /\ T.disk[mid] = T.heap[index[mid]]
        /\ storage = "refused" => T.disk = disk
        /\ storage = "partial" => T.disk = Put(disk, mid, Partial)

\* an item of the primary map has been retrieved and its record carries the
\* access_count in memory, and one more retrieve, now that writes are refused,
\* leaves the record one access behind
C30_Witness ==
    /\ storage = "refused"
    /\ \E mid \in DOMAIN index :
          /\ heap[index[mid]].access_count >= 2
          /\ RecordIsCurrent(State, mid)
          /\ ~RecordIsCurrent(AfterLtmRetrieve(mid), mid)
\* the threads that have returned from a retrieve of an id the tier holds
Retrieved == { t \in ThreadIds : /\ threads[t].op \in {"stm_retrieve", "ltm_retrieve"}
                                  /\ threads[t].pc = "done"
                                  /\ threads[t].item # None }
\* the threads that are in a retrieve
Retrieving == { t \in ThreadIds : /\ threads[t].op \in {"stm_retrieve", "ltm_retrieve"}
                                   /\ ~Ended(threads[t]) }

\* C23: concurrent retrieves of the same id never lose an increment.  When k
\* retrieve(id) calls on the same present item have run concurrently and all
\* have returned, the item's access_count is exactly k higher than it was when
\* they started.
C23_NoIncrementIsLost ==
    (Retrieving = {} /\ Retrieved # {}) =>
        \A t \in Retrieved :
            heap[threads[t].item].access_count =
                threads[t].before
                  + Cardinality({ u \in Retrieved : threads[u].item = threads[t].item })

\* every id of a tag bucket or a kind bucket is in the primary map, and every
\* id of the primary map is in the bucket of its kind and of each of its tags
IndicesAgree(S) ==
    /\ \A tag \in DOMAIN S.tag_index : S.tag_index[tag] \subseteq DOMAIN S.index
    /\ \A kind \in DOMAIN S.type_index : S.type_index[kind] \subseteq DOMAIN S.index
    /\ \A mid \in DOMAIN S.index :
          LET item == S.heap[S.index[mid]] IN
          /\ mid \in Bucket(S.type_index, item.memory_type)
          /\ \A tag \in item.tags : mid \in Bucket(S.tag_index, tag)

\* C24: the primary map, the tag index and the kind index are updated together
\* by store and by prune.  In no state that a reader on another thread can
\* observe does a bucket hold an id missing from the primary map, or the
\* primary map hold an item whose id is missing from its kind bucket or from
\* one of its tag buckets.
C24_IndicesChangeTogether == IndicesAgree(State)

\* the sequence p is the beginning of the sequence q
IsPrefix(p, q) == Len(p) <= Len(q) /\ \A i \in 1..Len(p) : p[i] = q[i]

\* C25: consolidate_memories iterates over the list that get_all returned when
\* it started.  Whatever a store on another thread does to the ring buffer in
\* the meantime, the items the loop has taken are the items of that list, in
\* order, each once and none skipped; when the call returns it has taken all
\* of them; and no item, and no id, is counted twice in consolidated_count.
C25_ConsolidateRunsOverSnapshot ==
    \A t \in ThreadIds :
        LET th == threads[t] IN
        th.op = "consolidate" =>
            /\ IsPrefix(th.evaluated, th.snap)
            /\ th.pc = "done" => th.evaluated = th.snap
            /\ \A i, j \in 1..Len(th.counted) :
                  i # j => /\ th.counted[i] # th.counted[j]
                           /\ heap[th.counted[i]].memory_id # heap[th.counted[j]].memory_id

\* consolidate_memories has returned: it took every item of its list and
\* promoted one, and the ring buffer is no longer that list because the store
\* on the other thread appended to it in the meantime
C25_Witness ==
    \E t \in ThreadIds :
        LET th == threads[t] IN
        /\ th.op = "consolidate"
        /\ th.pc = "done"
        /\ th.evaluated = th.snap
        /\ th.counted # << >>
        /\ items # th.snap
        /\ \A i \in 1..Len(th.counted) : heap[th.counted[i]].memory_id \in DOMAIN index

\* the thread is inside ShortTermMemory.store: it has appended to the ring
\* buffer and has not finished the sweep
InStmStore(th) == th.op = "store" /\ th.pc \in {"map", "scan", "scanned", "delete"}

\* C26: a ShortTermMemory.store (append to the ring buffer, insert into the
\* side table, sweep) runs as one critical section.  When two stores run
\* concurrently, no statement of one runs between the statements of the other,
\* neither raises, and when both have returned both items are in the ring
\* buffer (capacity permitting) and in the side table.
C26_StoreIsOneCriticalSection ==
    \A t, u \in ThreadIds :
        (t # u /\ threads[t].op = "store" /\ threads[u].op = "store") =>
            /\ ~(InStmStore(threads[t]) /\ InStmStore(threads[u]))
            /\ threads[t].err = ""
            /\ (threads[t].pc = "done" /\ threads[u].pc = "done") =>
                  /\ (max_capacity >= 2 => threads[t].item \in Range(items))
                  /\ threads[t].mid \in DOMAIN item_map
                  /\ item_map[threads[t].mid] = threads[t].item
\* the arguments given to LongTermMemory.search in C31
RankedQueries == { "", "x" }
RankedTags == { {}, {"a"} }
RankedKinds == { "", "episodic" }
RankedTopKs == { 0, 1, 2, TOP_K_DEFAULT }

C32_RecordsFollowMemory ==
    \A mid \in DOMAIN index :
        /\ mid \in DOMAIN disk
        /\ disk[mid].importance = heap[index[mid]].importance
        /\ disk[mid].access_count = heap[index[mid]].access_count
\* C33: under any sequence of the orchestrator's store, retrieve(query),
\* consolidate_memories, auto_maintain and get_memory_status, every item's
\* access_count stays 1, so with the default rules (min_access_count 2 and 5)
\* consolidate_memories promotes nothing and reports consolidated = 0, and
\* every item of the primary map is an item that store mirrored
\* (force_long_term or importance >= 0.8), as it was stored.
C33_CollaboratorNeverPromotes ==
    /\ \A r \in DOMAIN heap : heap[r].access_count = 1
    /\ AfterConsolidate.consolidated = 0
    /\ AfterConsolidate.state = State
    /\ \A mid \in DOMAIN index :
          \E inp \in workload :
              /\ MirrorsOnStore(inp)
              /\ heap[index[mid]] = MemoryItem(mid, inp, heap[index[mid]].created_at)

\* the ring buffer holds an item that is not in the primary map, is old
\* enough and important enough for the first default rule and is returned by
\* retrieve("x"), while the primary map holds a mirrored item
C33_Witness ==
    /\ index # Empty
    /\ \E r \in Range(items) :
          /\ heap[r].memory_id \notin DOMAIN index
          /\ FloatGeq(heap[r].importance, DefaultRules[1].min_importance)
          /\ now - heap[r].created_at >= DefaultRules[1].min_age_minutes
          /\ \E out \in RetrieveQuery(State, "x", TRUE) : r \in Range(out.result)
\* the objects that are not in the ring buffer and not in the primary map
Unpromoted(S) == { r \in DOMAIN S.heap : r \notin Range(S.items) /\ r \notin Range(S.index) }

\* C34: consolidate_memories considers exactly the items in the ring buffer.
\* An item that capacity evicted from the ring buffer before it was promoted
\* is not promoted by consolidate_memories (nor by auto_maintain), in any later
\* state, also when retrieve of its id still returns it and it satisfies a
\* rule; the items promoted are ring-buffer items.
C34_EvictedItemsAreNeverPromoted ==
    /\ \A r \in Unpromoted(State) :
          /\ r \notin Range(AfterConsolidate.state.index)
          /\ r \notin Range(AfterAutoMaintain.index)
    /\ Range(AfterConsolidate.state.index) \subseteq Range(index) \cup Range(items)

\* an item has been evicted from the ring buffer, retrieve of its id returns
\* it, it satisfies a rule and its id is not in the primary map, and the
\* ring buffer is full
C34_Witness ==
    \E r \in Unpromoted(State) :
        /\ StmRetrieveResult(State, heap[r].memory_id) = r
        /\ heap[r].memory_id \notin DOMAIN index
        /\ RuleLoop(consolidation_rules, 1, heap[r], now - heap[r].created_at)
        /\ Len(items) = max_capacity
\* what get_statistics reports under "memory_types": the size of each bucket
RECURSIVE SumOfSizes(_, _)
SumOfSizes(f, keys) ==
    IF keys = {} THEN 0
    ELSE LET k == CHOOSE x \in keys : TRUE
         IN  Cardinality(f[k]) + SumOfSizes(f, keys \ {k})

\* C35: the kind index is exact.  In every reachable state each id of the
\* primary map is in exactly one kind bucket, the bucket of the item's kind;
\* an id is in a tag bucket only if the item carries that tag; and the
\* per-kind counts of get_statistics sum to the number of items.
C35_KindIndexIsExact ==
    /\ \A mid \in DOMAIN index :
          { kind \in DOMAIN type_index : mid \in type_index[kind] }
              = { heap[index[mid]].memory_type }
    /\ \A tag \in DOMAIN tag_index :
          \A mid \in tag_index[tag] \cap DOMAIN index : tag \in heap[index[mid]].tags
    /\ SumOfSizes(type_index, DOMAIN type_index) = Cardinality(DOMAIN index)
\* C36: ShortTermMemory.retrieve never lowers an item's importance: for every
\* stored importance, also one that is out of range, the importance after
\* retrieve(id) is greater than or equal to the importance before it.
C36_RetrieveNeverLowersImportance ==
    \A mid \in DOMAIN item_map :
        LET r == item_map[mid] IN
        FloatGeq(AfterStmRetrieve(mid).heap[r].importance, heap[r].importance)
\* C36, amended: ShortTermMemory.retrieve does not lower an importance that is
\* at most 1.0 (it becomes min(1.0, importance + 0.05)); an importance above
\* 1.0 becomes exactly 1.0, which is lower.
C36_RetrieveLowersOnlyAboveOne ==
    \A mid \in DOMAIN item_map :
        LET r == item_map[mid]
            before == heap[r].importance
            after == AfterStmRetrieve(mid).heap[r].importance
        IN  /\ FloatGeq(Float(FULL), before) => FloatGeq(after, before)
            /\ FloatLess(Float(FULL), before) => after = Float(FULL)

\* the side table holds an item stored with importance 1.2, and an item whose
\* importance is below 1.0
C36_Witness ==
    /\ \E mid \in DOMAIN item_map : heap[item_map[mid]].importance = Float(120)
    /\ \E mid \in DOMAIN item_map : FloatLess(heap[item_map[mid]].importance, Float(FULL))
\* C37: the summary that consolidate_memories returns is consistent with the
\* state change: consolidated is the number of ids that the call added to the
\* primary map, ltm_count is the size of the primary map on return, and
\* stm_count is the length of the ring buffer (which the call leaves as it
\* was).
C37_SummaryMatchesStateChange ==
    LET T == AfterConsolidate.state
        summary == ConsolidateSummary(State, consolidation_rules, now)
    IN  /\ summary.consolidated = Cardinality(DOMAIN T.index \ DOMAIN index)
        /\ DOMAIN index \subseteq DOMAIN T.index
        /\ summary.ltm_count = Cardinality(DOMAIN index) + summary.consolidated
        /\ summary.stm_count = Len(items)
        /\ T.items = items

\* consolidate_memories promotes an item and passes over another item of the
\* ring buffer that satisfies a rule and whose id is in the primary map
C37_Witness ==
    /\ AfterConsolidate.consolidated >= 1
    /\ \E r \in Range(items) :
          /\ RuleLoop(consolidation_rules, 1, heap[r], now - heap[r].created_at)
          /\ heap[r].memory_id \in DOMAIN index
\* C38: auto_maintain called twice in a row reaches a fixpoint: the second
\* call promotes nothing and prunes nothing, in every reachable state.
C38_SecondMaintainDoesNothing ==
    LET T == AfterAutoMaintain
        second == ConsolidateMemories(T, consolidation_rules, now)
    IN  /\ second.consolidated = 0
        /\ PruneResult(second.state, now, MAINTAIN_MIN_IMPORTANCE, MAINTAIN_MAX_AGE_DAYS) = 0
        /\ AutoMaintainAt(T, consolidation_rules, now) = T
\* C39: a pruned item does not reappear.  After prune the id of every item it
\* removed is absent from the primary map, from every tag bucket and from
\* every kind bucket, its record is gone from the directory, and a restart on
\* the same storage path does not load it.
C39_PrunedItemsStayGone ==
    \A p \in PruneInputs :
        LET T == AfterPrune(p[1], p[2])
            reloaded == Construct(T.disk)
        IN  \A mid \in ToRemove(State, now, p[1], p[2]) :
                /\ mid \notin DOMAIN T.index
                /\ \A tag \in DOMAIN T.tag_index : mid \notin T.tag_index[tag]
                /\ \A kind \in DOMAIN T.type_index : mid \notin T.type_index[kind]
                /\ mid \notin DOMAIN T.disk
                /\ mid \notin DOMAIN reloaded.index
\* C40: ShortTermMemory.search and LayeredMemorySystem.retrieve(query) return
\* a list for every query and every stored content and never raise; an item
\* whose content is empty or blank and matches the query gives no division by
\* zero.
C40_SearchNeverRaises ==
    \A query \in BlankQueries :
        /\ ~StmSearchRaises(State, query)
        /\ \A search_both \in BOOLEAN : ~RetrieveRaises(State, query, search_both)
====
